---- MODULE Spec2Model ----
(***************************************************************************)
(* Decision-tree trading tracker: the session state machine driven by      *)
(* trade results.  A session row (sessions table) is advanced through the  *)
(* static decisionTree by two code paths: the internal result monitor      *)
(* (TradingPlatformService.monitorTradeResult -> updateDecisionTreeNode)   *)
(* and the trade-result callback endpoint (processTradeResult).  Every SQL *)
(* statement is one atomic step; a handler is a process whose position     *)
(* between two awaited statements is part of the state.                    *)
(***************************************************************************)
EXTENDS Integers, Sequences, FiniteSets, Bags, TLC

\* ------------------------------------------------------------------------
\* Bounds of the model
\* ------------------------------------------------------------------------

\* number of distinct external trade ids (each new id creates one session)
MaxTrades ==
    1

\* number of trade-result callback requests that can be in flight at once
MaxInFlight ==
    2

\* number of trade-result callbacks that get as far as updating a session
MaxCallbacks ==
    7

\* number of handlers that start while another handler is still running
MaxOverlaps ==
    1

\* number of SQL statements that fail in one run
MaxDbFailures ==
    1

\* number of session ids the webhook can generate
MaxSessions ==
    2

\* number of recorder calls that can be in flight at once
MaxWriters ==
    2

\* the highest step number a recorder or a rollback writes
MaxSteps ==
    3

\* number of moves of a dashboard game that are followed
MaxMoves ==
    12

\* number of times the server process is restarted
MaxRestarts ==
    1

TradeIds ==
    1..MaxTrades

SessionIds ==
    1..MaxSessions

CallbackSlots ==
    1..MaxInFlight

\* ------------------------------------------------------------------------
\* The static decision graph
\* ------------------------------------------------------------------------

\* a property that a JavaScript object does not have
undefined ==
    "undefined"

decisionTree ==
      ("Start" :> [win |-> "1-0", loss |-> "0-1", final |-> FALSE])
   @@ ("1-0" :> [win |-> "2-0", loss |-> "1-1", final |-> FALSE])
   @@ ("0-1" :> [win |-> "1-1", loss |-> "0-2", final |-> FALSE])
   @@ ("2-0" :> [win |-> "3-0", loss |-> "2-1", final |-> FALSE])
   @@ ("1-1" :> [win |-> "2-1", loss |-> "1-2", final |-> FALSE])
   @@ ("0-2" :> [win |-> "1-2", loss |-> "0-3", final |-> FALSE])
   @@ ("3-0" :> [win |-> "4-0", loss |-> "3-1", final |-> FALSE])
   @@ ("2-1" :> [win |-> "3-1", loss |-> "2-2", final |-> FALSE])
   @@ ("1-2" :> [win |-> "2-2", loss |-> "1-3", final |-> FALSE])
   @@ ("0-3" :> [win |-> "1-3", loss |-> "0-4", final |-> FALSE])
   @@ ("4-0" :> [win |-> "WIN", loss |-> "4-1", final |-> FALSE])
   @@ ("3-1" :> [win |-> "4-1", loss |-> "3-2", final |-> FALSE])
   @@ ("2-2" :> [win |-> "3-2", loss |-> "2-3", final |-> FALSE])
   @@ ("1-3" :> [win |-> "2-3", loss |-> "1-4", final |-> FALSE])
   @@ ("0-4" :> [win |-> "1-4", loss |-> "0-5", final |-> FALSE])
   @@ ("4-1" :> [win |-> "WIN", loss |-> "4-2", final |-> FALSE])
   @@ ("3-2" :> [win |-> "4-2", loss |-> "3-3", final |-> FALSE])
   @@ ("2-3" :> [win |-> "3-3", loss |-> "2-4", final |-> FALSE])
   @@ ("1-4" :> [win |-> "2-4", loss |-> "1-5", final |-> FALSE])
   @@ ("0-5" :> [win |-> "1-5", loss |-> "LOST", final |-> FALSE])
   @@ ("4-2" :> [win |-> "WIN", loss |-> "4-3", final |-> FALSE])
   @@ ("3-3" :> [win |-> "4-3", loss |-> "3-4", final |-> FALSE])
   @@ ("2-4" :> [win |-> "3-4", loss |-> "2-5", final |-> FALSE])
   @@ ("1-5" :> [win |-> "2-5", loss |-> "LOST", final |-> FALSE])
   @@ ("4-3" :> [win |-> "WIN", loss |-> "4-4", final |-> FALSE])
   @@ ("3-4" :> [win |-> "4-4", loss |-> "3-5", final |-> FALSE])
   @@ ("2-5" :> [win |-> "3-5", loss |-> "LOST", final |-> FALSE])
   @@ ("4-4" :> [win |-> "WIN", loss |-> "4-5", final |-> FALSE])
   @@ ("3-5" :> [win |-> "4-5", loss |-> "LOST", final |-> FALSE])
   @@ ("4-5" :> [win |-> "WIN", loss |-> "LOST", final |-> FALSE])
   @@ ("WIN" :> [win |-> undefined, loss |-> undefined, final |-> TRUE])
   @@ ("LOST" :> [win |-> undefined, loss |-> undefined, final |-> TRUE])

NodeIds ==
    DOMAIN decisionTree

\* the literal the callback path writes when a node has no win/loss edge
End ==
    "End"

\* the characters of every string that can be stored in current_node
Chars ==
      ("Start" :> <<"S", "t", "a", "r", "t">>)
   @@ ("1-0" :> <<"1", "-", "0">>)
   @@ ("0-1" :> <<"0", "-", "1">>)
   @@ ("2-0" :> <<"2", "-", "0">>)
   @@ ("1-1" :> <<"1", "-", "1">>)
   @@ ("0-2" :> <<"0", "-", "2">>)
   @@ ("3-0" :> <<"3", "-", "0">>)
   @@ ("2-1" :> <<"2", "-", "1">>)
   @@ ("1-2" :> <<"1", "-", "2">>)
   @@ ("0-3" :> <<"0", "-", "3">>)
   @@ ("4-0" :> <<"4", "-", "0">>)
   @@ ("3-1" :> <<"3", "-", "1">>)
   @@ ("2-2" :> <<"2", "-", "2">>)
   @@ ("1-3" :> <<"1", "-", "3">>)
   @@ ("0-4" :> <<"0", "-", "4">>)
   @@ ("4-1" :> <<"4", "-", "1">>)
   @@ ("3-2" :> <<"3", "-", "2">>)
   @@ ("2-3" :> <<"2", "-", "3">>)
   @@ ("1-4" :> <<"1", "-", "4">>)
   @@ ("0-5" :> <<"0", "-", "5">>)
   @@ ("4-2" :> <<"4", "-", "2">>)
   @@ ("3-3" :> <<"3", "-", "3">>)
   @@ ("2-4" :> <<"2", "-", "4">>)
   @@ ("1-5" :> <<"1", "-", "5">>)
   @@ ("4-3" :> <<"4", "-", "3">>)
   @@ ("3-4" :> <<"3", "-", "4">>)
   @@ ("2-5" :> <<"2", "-", "5">>)
   @@ ("4-4" :> <<"4", "-", "4">>)
   @@ ("3-5" :> <<"3", "-", "5">>)
   @@ ("4-5" :> <<"4", "-", "5">>)
   @@ ("WIN" :> <<"W", "I", "N">>)
   @@ ("LOST" :> <<"L", "O", "S", "T">>)
   @@ ("End" :> <<"E", "n", "d">>)

IsEdge(from, to) ==
    /\ from \in NodeIds
    /\ to # undefined
    /\ \/ decisionTree[from].win = to
       \/ decisionTree[from].loss = to

\* ------------------------------------------------------------------------
\* Node-jump validation of the trade-result callback (level arithmetic)
\* ------------------------------------------------------------------------

DigitValue ==
    ("0" :> 0) @@ ("1" :> 1) @@ ("2" :> 2) @@ ("3" :> 3) @@ ("4" :> 4)
    @@ ("5" :> 5) @@ ("6" :> 6) @@ ("7" :> 7) @@ ("8" :> 8) @@ ("9" :> 9)

IsDigit(c) ==
    c \in DOMAIN DigitValue

\* str.replace(/\D/g, ''): drop every character that is not a digit
StripNonDigits(str) ==
    SelectSeq(str, IsDigit)

NaN ==
    -1

RECURSIVE ParseDigits(_, _)
ParseDigits(str, acc) ==
    IF str = <<>> THEN acc
    ELSE ParseDigits(Tail(str), 10 * acc + DigitValue[Head(str)])

\* parseInt of a digit-only string: NaN for the empty string
parseInt(str) ==
    IF str = <<>> THEN NaN ELSE ParseDigits(str, 0)

\* parseInt(node.replace(/\D/g, '')) || 1 : NaN and 0 are falsy
Level(node) ==
    LET n == parseInt(StripNonDigits(Chars[node]))
    IN IF n = NaN \/ n = 0 THEN 1 ELSE n

CallbackValidateNodeJump(currentNode, nextNode) ==
    LET currentLevel == Level(currentNode)
        nextLevel == Level(nextNode)
    IN IF nextLevel > currentLevel + 1
       THEN [isValid |-> FALSE, requiresRollback |-> TRUE,
             rollbackToNode |-> currentNode]
       ELSE [isValid |-> TRUE, requiresRollback |-> FALSE,
             rollbackToNode |-> undefined]

\* ------------------------------------------------------------------------
\* Node-jump validation of the exception handler (progression table)
\* ------------------------------------------------------------------------

nodeJumpValidationEnabled ==
    TRUE

validProgressions ==
       ("Start" :> <<"Level 1">>)
    @@ ("Level 1" :> <<"Level 2", "Level 3">>)
    @@ ("Level 2" :> <<"Level 3", "Level 4">>)
    @@ ("Level 3" :> <<"Level 4", "Level 5">>)
    @@ ("Level 4" :> <<"Level 5", "Level 6">>)
    @@ ("Level 5" :> <<"Level 6", "Level 7">>)
    @@ ("Level 6" :> <<"Level 7", "Level 8">>)
    @@ ("Level 7" :> <<"Level 8", "Level 9">>)
    @@ ("Level 8" :> <<"Level 9", "Level 10">>)
    @@ ("Level 9" :> <<"Level 10", "Complete">>)
    @@ ("Level 10" :> <<"Complete">>)

nodeLevels ==
    <<"Start", "Level 1", "Level 2", "Level 3", "Level 4", "Level 5",
      "Level 6", "Level 7", "Level 8", "Level 9", "Level 10">>

\* Array.includes
Includes(arr, x) ==
    \E i \in 1..Len(arr) : arr[i] = x

\* Array.indexOf, zero-based, -1 when absent
IndexOf(arr, x) ==
    IF Includes(arr, x)
    THEN (CHOOSE i \in 1..Len(arr) :
            /\ arr[i] = x
            /\ \A j \in 1..(i - 1) : arr[j] # x) - 1
    ELSE -1

determineRollbackNode(currentNode, invalidNode) ==
    LET currentIndex == IndexOf(nodeLevels, currentNode)
    IN IF currentIndex > 0 THEN nodeLevels[currentIndex] ELSE "Start"

validateNodeJump(currentSessionNode, proposedNode) ==
    IF ~nodeJumpValidationEnabled
    THEN [isValid |-> TRUE, requiresRollback |-> FALSE,
          rollbackToNode |-> undefined]
    ELSE LET validNextNodes ==
                 IF currentSessionNode \in DOMAIN validProgressions
                 THEN validProgressions[currentSessionNode]
                 ELSE <<>>
         IN IF ~Includes(validNextNodes, proposedNode)
            THEN [isValid |-> FALSE, requiresRollback |-> TRUE,
                  rollbackToNode |->
                      determineRollbackNode(currentSessionNode, proposedNode)]
            ELSE [isValid |-> TRUE, requiresRollback |-> FALSE,
                  rollbackToNode |-> undefined]

\* ------------------------------------------------------------------------
\* State
\* ------------------------------------------------------------------------

VARIABLES
    sessions,          \* sessions table: session_id -> row
    session_steps,     \* session_steps table: session_id -> bag of rows
    trade_signals,     \* trade_signals table: trade_id -> row
    monitor,           \* per trade: the background result monitor started by setTimeout
    callback,          \* per slot: one in-flight POST /api/webhook/trade-result
    appliedOutcomes,   \* history: per session, the trade results written to its row
    nodeJumpRejected,  \* history: per session, a node-jump validation failure was handled
    dbFailures,        \* number of SQL statements that have thrown so far
    callbacksAccepted, \* number of callbacks that passed every check so far
    overlaps,          \* number of handlers started while another one was running
    jump,              \* one (currentNode, proposedNode) pair given to both validators
    processedSignals,  \* SignalProcessor.processedSignals: ids seen by this process
    cachedSessions,    \* ExceptionHandler.cachedSessions: session_id -> cached data
    restarts,          \* number of restarts of the server process so far
    webhookResponse,   \* the response to the latest trade-signal request
    now,               \* Date.now()
    sync,              \* one running synchronizeCachedSessions pass
    exec,              \* one running executeTrade call
    cacheResult,       \* what the latest handleDatabaseFailure call returned
    overnight_trades,  \* overnight_trades table: trade_id -> row
    activeTrades,      \* OvernightTradeManager.activeTrades: trade_id -> status
    overnightLog,      \* what the checkOvernightTrades calls have logged
    solver,            \* one adjustStakeForNetProfit call
    intake,            \* the signal intake: what the validated requests have left
    writers,           \* per slot: one recordExecutionStep or recordResultStep call
    currentPath,       \* the dashboard's game: the nodes visited, in order
    firstCached        \* history: per cached session, when its entry was created

\* what only the signal webhook and a restart of the process touch
memoryVars ==
    <<processedSignals, cachedSessions, restarts, webhookResponse>>

\* the state of the components that are modelled on their own
sideVars ==
    <<now, sync, exec, cacheResult, overnight_trades, activeTrades, overnightLog, solver,
      intake, writers, currentPath, firstCached>>

vars ==
    <<sessions, session_steps, trade_signals, monitor, callback,
      appliedOutcomes, nodeJumpRejected, dbFailures, callbacksAccepted,
      overlaps, jump, memoryVars, sideVars>>

\* SQL NULL in a numeric column; every reader of these columns sums them
null ==
    0

Results ==
    {"win", "loss"}

\* profit_loss of a trade's result: trade_amount times the relative distance
\* of target (win) or stop (loss) from entry, fixed by the trade's signal
ProfitLoss(t, result) ==
    IF result = "win" THEN t ELSE -t

\* String.toUpperCase on 'win' / 'loss'
toUpperCase(result) ==
    IF result = "win" THEN "WIN" ELSE "LOSS"

MonitorIdle ==
    [pc |-> "none", session_id |-> 0, result |-> "none", profit_loss |-> 0,
     currentNode |-> undefined, nextNode |-> undefined, isValid |-> TRUE,
     rollbackToNode |-> undefined, newRunningTotal |-> 0]

MonitorDone ==
    [MonitorIdle EXCEPT !.pc = "done"]

CallbackIdle ==
    [pc |-> "idle", trade_id |-> 0, session_id |-> 0, result |-> "none",
     profit_loss |-> 0, nextNode |-> undefined, newTotal |-> 0,
     isCompleted |-> FALSE]

JumpUnchecked ==
    [currentNode |-> "Start", proposedNode |-> "Start",
     callbackIsValid |-> "unchecked", handlerIsValid |-> "unchecked"]

\* no synchronizeCachedSessions pass is running
SyncIdle ==
    [pc |-> "idle", currentTime |-> 0, visited |-> {},
     expiredSessions |-> {}, synced |-> 0, failed |-> 0]

\* handleDatabaseFailure has not been called yet
NoCacheResult ==
    [sessionId |-> 0, cached |-> FALSE, message |-> "none"]

\* lastError is null
NoError ==
    "null"

\* no executeTrade call is running
ExecIdle ==
    [pc |-> "idle", session_id |-> 0, calls |-> 0, attempt |-> 0,
     waits |-> <<>>, thrown |-> <<>>, lastError |-> NoError,
     status |-> "none", error |-> NoError, originalAmount |-> 0,
     filledAmount |-> 0, partialFill |-> FALSE, step_number |-> 0]

\* no trade-signal request has been answered yet
NoResponse ==
    [trade_id |-> 0, result |-> "none"]

\* a fresh server process: the singletons signalProcessor and exceptionHandler
\* are constructed with an empty Set and an empty Map
MemoryInit ==
    /\ processedSignals = {}
    /\ cachedSessions = [s \in {} |-> 0]
    /\ restarts = 0
    /\ webhookResponse = NoResponse

\* adjustStakeForNetProfit has not been called
SolverIdle ==
    [pc |-> "idle", calls |-> 0]

\* no scan of the overnight trades has run
\* no recordExecutionStep or recordResultStep call is running
WritersIdle ==
    [w \in 1..MaxWriters |-> [pc |-> "idle", session_id |-> 0,
                              step_type |-> "", step_number |-> 0]]

\* the signal intake before the first request: SignalProcessor.processedSignals
\* is empty, nothing is stored, no order was sent
IntakeIdle ==
    [requests |-> 0, processedSignals |-> {}, sessions |-> {},
     trade_signals |-> <<>>, orders |-> {}, signal |-> <<>>,
     validation |-> <<>>, status |-> 0]

\* no scan has run and manualClose has not been called; closed is what the
\* last call of manualClose found in the Map and what it returned
NoScan ==
    [scans |-> 0, at |-> 0, considered |-> {},
     closed |-> [status |-> "none", returned |-> FALSE]]

SideInit ==
    /\ now = 0
    /\ sync = SyncIdle
    /\ exec = ExecIdle
    /\ cacheResult = NoCacheResult
    /\ overnight_trades = [t \in {} |-> 0]
    /\ activeTrades = [t \in {} |-> 0]
    /\ overnightLog = NoScan
    /\ solver = SolverIdle
    /\ intake = IntakeIdle
    /\ writers = WritersIdle
    /\ currentPath = <<"Start">>
    /\ firstCached = [s \in {} |-> 0]

Init ==
    /\ sessions = [s \in {} |-> 0]
    /\ session_steps = [s \in SessionIds |-> EmptyBag]
    /\ trade_signals = [t \in {} |-> 0]
    /\ monitor = [t \in TradeIds |-> MonitorIdle]
    /\ callback = [c \in CallbackSlots |-> CallbackIdle]
    /\ appliedOutcomes = [s \in SessionIds |-> <<>>]
    /\ nodeJumpRejected = [s \in SessionIds |-> FALSE]
    /\ dbFailures = 0
    /\ callbacksAccepted = 0
    /\ overlaps = 0
    /\ jump = JumpUnchecked
    /\ MemoryInit
    /\ SideInit

\* ------------------------------------------------------------------------
\* Table helpers
\* ------------------------------------------------------------------------

\* INSERT INTO session_steps; the foreign key needs the session row.  The
\* table is a bag of rows: step_number, step_timestamp, stake_value and note
\* are left out, no statement that decides a session's node, total or
\* completion reads them.
InsertStep(s, step) ==
    IF s \in DOMAIN sessions
    THEN [session_steps EXCEPT ![s] = @ (+) SetToBag({step})]
    ELSE session_steps

\* handlers that are between two awaited statements
RunningMonitors ==
    {t \in TradeIds :
        monitor[t].pc \in {"recordResult", "readSession", "writeSession",
                           "finish"}}

RunningCallbacks ==
    {c \in CallbackSlots : callback[c].pc # "idle"}

\* a handler starts to run: alone, or next to a running one
StartHandler ==
    IF RunningMonitors = {} /\ RunningCallbacks = {}
    THEN UNCHANGED overlaps
    ELSE /\ overlaps < MaxOverlaps
         /\ overlaps' = overlaps + 1

\* one awaited SQL statement: it succeeds (dbOk) or throws
SqlStatement(dbOk) ==
    /\ dbOk \/ dbFailures < MaxDbFailures
    /\ dbFailures' = IF dbOk THEN dbFailures ELSE dbFailures + 1

\* ------------------------------------------------------------------------
\* POST /api/webhook/trade-signal: a signal with a new trade id creates a
\* session at Start, the order is executed, the execution is recorded and,
\* when it succeeded, the result monitor is started in the background
\* ------------------------------------------------------------------------

ExecutionStatus ==
    {"SUCCESS", "FAILED"}

\* the awaited statement of the request that throws, if any: the SELECT of
\* findSessionByTradeId, the INSERT INTO sessions and the INSERT of the
\* initial step of createNewSession, the upsert of saveTradeSignal, the
\* INSERT of recordExecutionStep
WebhookFailures ==
    {"none", "find", "create", "initialStep", "save", "record"}

\* session ids that the webhook has generated so far
GeneratedSessionIds ==
    DOMAIN sessions \cup DOMAIN cachedSessions
        \cup {trade_signals[t].session_id : t \in DOMAIN trade_signals}

\* config.maxRetryCount
maxRetryCount ==
    3

\* the entry is dropped when its retries are used up
handleDatabaseFailureDiscarding(sessionData) ==
    LET s == sessionData.sessionId
    IN IF s \in DOMAIN cachedSessions
          /\ cachedSessions[s].retryCount >= maxRetryCount
       THEN [x \in DOMAIN cachedSessions \ {s} |-> cachedSessions[x]]
       ELSE IF s \in DOMAIN cachedSessions
            THEN [cachedSessions EXCEPT ![s].retryCount = @ + 1,
                                        ![s].timestamp = now]
            ELSE cachedSessions @@
                     (s :> [sessionData EXCEPT !.retryCount = 1,
                                               !.timestamp = now])

\* ExceptionHandler.handleDatabaseFailure: the new value of cachedSessions
handleDatabaseFailure(sessionData) ==
    LET s == sessionData.sessionId
    IN IF s \in DOMAIN cachedSessions
       THEN [cachedSessions EXCEPT ![s].retryCount = @ + 1,
                                   ![s].timestamp = now]
       ELSE cachedSessions @@
                (s :> [sessionData EXCEPT !.retryCount = 1,
                                          !.timestamp = now])

\* what handleDatabaseFailure returns for the entry it has just written
CacheResultOf(s, cache) ==
    [sessionId |-> s,
     cached |-> TRUE,
     message |-> IF s \in DOMAIN cache
                    /\ cache[s].retryCount <= maxRetryCount
                 THEN "Retry"
                 ELSE "Manual intervention required"]

\* INSERT ... ON CONFLICT (key) DO UPDATE on a table held as a function
Upsert(table, key, row) ==
    [k \in DOMAIN table \cup {key} |-> IF k = key THEN row ELSE table[k]]

\* a monitor that is started whatever the execution's status is
MonitorsEveryExecution(status) ==
    TRUE

\* if (executionResult.status === 'SUCCESS'): the result monitor is started
\* only for an execution that succeeded
MonitorsExecution(status) ==
    status = "SUCCESS"

\* The whole request and its response: 400 'Signal validation failed', 500
\* with the error of processTradeSignal, 200 'processed and executed', or
\* 500 'Trade execution failed'.  valid: the signal passes the checks of
\* validateTradeSignal other than the duplicate check.  The duplicate check
\* of validateSignalQuality runs after the other checks whatever they found,
\* and adds the id to processedSignals.  An accepted signal continues the
\* session found for its trade id or creates a session at Start; a failed
\* session creation or signal save is cached and the request goes on; the
\* order is executed and the execution recorded; a successful execution
\* starts the result monitor.  (updateSessionBalance writes only
\* initial_amount; handlePartialFill writes only stake_value and note.)
TradeSignalWebhook(t, valid, failAt, status) ==
    LET duplicate == t \in processedSignals
        accepted == ~duplicate /\ valid
        existing == /\ accepted
                    /\ failAt # "find"
                    /\ t \in DOMAIN trade_signals
                    /\ trade_signals[t].session_id \in DOMAIN sessions
        creating == accepted /\ ~existing
        s == IF existing THEN trade_signals[t].session_id
             ELSE CHOOSE x \in SessionIds \ GeneratedSessionIds :
                      \A y \in SessionIds \ GeneratedSessionIds : x <= y
        currentNode == IF existing THEN sessions[s].current_node ELSE "Start"
        created == creating /\ failAt # "create"
        hasNode == accepted /\ currentNode \in NodeIds
        cachedSessionData ==
            [sessionId |-> s, trade_id |-> t, currentNode |-> currentNode,
             timestamp |-> now, retryCount |-> 0]
        startStep ==
            [node_name |-> currentNode, action |-> "start",
             step_type |-> "DECISION", stake_result |-> null,
             trade_result_actual |-> null]
        executeStep ==
            [node_name |-> "EXECUTE",
             action |-> IF status = "SUCCESS" THEN "execute" ELSE "failed",
             step_type |-> "EXECUTE", stake_result |-> null,
             trade_result_actual |-> null]
        sessionsAfter ==
            IF created
            THEN sessions @@ (s :> [current_node |-> currentNode,
                                    final_total |-> 0, is_completed |-> FALSE])
            ELSE sessions
        startSteps ==
            IF created /\ failAt # "initialStep"
            THEN SetToBag({startStep}) ELSE EmptyBag
        executeSteps ==
            IF hasNode /\ failAt # "record" /\ s \in DOMAIN sessionsAfter
            THEN SetToBag({executeStep}) ELSE EmptyBag
    IN /\ creating => GeneratedSessionIds # SessionIds
       /\ \/ failAt = "none"
          \/ failAt = "find" /\ accepted
          \/ failAt \in {"create", "initialStep"} /\ creating
          \/ failAt \in {"save", "record"} /\ hasNode
       /\ failAt # "none" => dbFailures < MaxDbFailures
       /\ dbFailures' = IF failAt = "none" THEN dbFailures ELSE dbFailures + 1
       /\ processedSignals' = processedSignals \cup {t}
       /\ sessions' = sessionsAfter
       /\ session_steps' =
            IF accepted
            THEN [session_steps EXCEPT ![s] = @ (+) startSteps (+) executeSteps]
            ELSE session_steps
       /\ trade_signals' =
            IF hasNode /\ failAt # "save"
            THEN Upsert(trade_signals, t,
                        [session_id |-> s, current_node |-> currentNode])
            ELSE trade_signals
       /\ cachedSessions' =
            IF failAt \in {"create", "initialStep", "save"}
            THEN handleDatabaseFailure(cachedSessionData)
            ELSE cachedSessions
       /\ monitor' =
            IF hasNode /\ MonitorsExecution(status)
            THEN [monitor EXCEPT ![t] =
                     [MonitorIdle EXCEPT !.pc = "timer", !.session_id = s]]
            ELSE monitor
       /\ webhookResponse' =
            [trade_id |-> t,
             result |-> IF ~accepted THEN "validation failed"
                        ELSE IF ~hasNode THEN "processing failed"
                        ELSE IF status = "SUCCESS" THEN "executed"
                        ELSE "execution failed"]
       /\ cacheResult' =
            IF failAt \in {"create", "initialStep", "save"}
            THEN CacheResultOf(s, handleDatabaseFailure(cachedSessionData))
            ELSE cacheResult
       /\ UNCHANGED <<callback, appliedOutcomes, nodeJumpRejected,
                      callbacksAccepted, overlaps, jump, restarts, now, sync,
                      exec, overnight_trades, activeTrades, overnightLog, solver, intake, writers, currentPath, firstCached>>

\* The server process is restarted between two requests: what it held in
\* memory is gone (the Set of processed signal ids, the Map of cached
\* sessions, a pending monitor timer); the database is kept.
Restart ==
    /\ restarts < MaxRestarts
    /\ RunningMonitors = {} /\ RunningCallbacks = {}
    /\ restarts' = restarts + 1
    /\ processedSignals' = {}
    /\ cachedSessions' = [s \in {} |-> 0]
    /\ monitor' = [t \in TradeIds |->
                      IF monitor[t].pc = "timer" THEN MonitorDone
                      ELSE monitor[t]]
    /\ UNCHANGED <<sessions, session_steps, trade_signals, callback,
                   appliedOutcomes, nodeJumpRejected, dbFailures,
                   callbacksAccepted, overlaps, jump, webhookResponse,
                   sideVars>>

\* ------------------------------------------------------------------------
\* TradingPlatformService.monitorTradeResult, one awaited statement a step
\* ------------------------------------------------------------------------

\* getTradeSignal, getCurrentPrice, checkTargetStopReached
MonitorCheck(t, dbOk, result) ==
    /\ monitor[t].pc = "timer"
    /\ SqlStatement(dbOk)
    /\ IF dbOk /\ t \in DOMAIN trade_signals /\ result \in Results
       THEN /\ StartHandler
            /\ monitor' = [monitor EXCEPT ![t].pc = "recordResult",
                                          ![t].result = result,
                                          ![t].profit_loss = ProfitLoss(t, result)]
       ELSE /\ monitor' = [monitor EXCEPT ![t] = MonitorDone]
            /\ UNCHANGED overlaps
    /\ UNCHANGED <<sessions, session_steps, trade_signals, callback,
                   appliedOutcomes, nodeJumpRejected, callbacksAccepted, jump,
                   memoryVars, sideVars>>

\* recordResultStep: the INSERT of the RESULT step (errors are swallowed)
MonitorRecordResult(t, dbOk) ==
    /\ monitor[t].pc = "recordResult"
    /\ SqlStatement(dbOk)
    /\ LET m == monitor[t]
           step == [node_name |-> toUpperCase(m.result),
                    action |-> m.result, step_type |-> "RESULT",
                    stake_result |-> m.profit_loss,
                    trade_result_actual |-> null]
       IN session_steps' =
            IF dbOk THEN InsertStep(m.session_id, step) ELSE session_steps
    /\ monitor' = [monitor EXCEPT ![t].pc = "readSession"]
    /\ UNCHANGED <<sessions, trade_signals, callback, appliedOutcomes,
                   nodeJumpRejected, callbacksAccepted, overlaps, jump,
                   memoryVars, sideVars>>

\* updateDecisionTreeNode: SELECT the session, pick the edge, validate the jump
MonitorReadSession(t, dbOk) ==
    /\ monitor[t].pc = "readSession"
    /\ SqlStatement(dbOk)
    /\ LET m == monitor[t]
           found == dbOk /\ m.session_id \in DOMAIN sessions
           session == sessions[m.session_id]
           currentNode == session.current_node
           hasNode == currentNode \in NodeIds
           node == decisionTree[currentNode]
           nextNode == IF m.result = "win" THEN node.win ELSE node.loss
           nodeValidation == validateNodeJump(currentNode, nextNode)
       IN monitor' =
            IF found /\ hasNode /\ nextNode # undefined
            THEN [monitor EXCEPT
                    ![t].pc = "writeSession",
                    ![t].currentNode = currentNode,
                    ![t].nextNode = nextNode,
                    ![t].isValid = nodeValidation.isValid,
                    ![t].rollbackToNode =
                        IF nodeValidation.isValid THEN undefined
                        ELSE IF nodeValidation.rollbackToNode # undefined
                             THEN nodeValidation.rollbackToNode
                             ELSE currentNode,
                    ![t].newRunningTotal =
                        IF nodeValidation.isValid
                        THEN session.final_total + m.profit_loss ELSE 0]
            ELSE [monitor EXCEPT ![t] = MonitorDone]
    /\ UNCHANGED <<sessions, session_steps, trade_signals, callback,
                   appliedOutcomes, nodeJumpRejected, callbacksAccepted,
                   overlaps, jump,
                   memoryVars, sideVars>>

\* the first UPDATE after validation: executeRollback's UPDATE of current_node
\* when the jump was rejected, otherwise the UPDATE that applies the result
MonitorWriteSession(t, dbOk) ==
    /\ monitor[t].pc = "writeSession"
    /\ SqlStatement(dbOk)
    /\ LET m == monitor[t]
           s == m.session_id
       IN IF ~m.isValid
          THEN /\ sessions' =
                    IF dbOk /\ s \in DOMAIN sessions
                    THEN [sessions EXCEPT ![s].current_node = m.rollbackToNode]
                    ELSE sessions
               /\ monitor' =
                    IF dbOk THEN [monitor EXCEPT ![t].pc = "finish"]
                    ELSE [monitor EXCEPT ![t] = MonitorDone]
               /\ nodeJumpRejected' =
                    IF dbOk THEN nodeJumpRejected
                    ELSE [nodeJumpRejected EXCEPT ![s] = TRUE]
               /\ UNCHANGED appliedOutcomes
          ELSE /\ sessions' =
                    IF dbOk /\ s \in DOMAIN sessions
                    THEN [sessions EXCEPT ![s].current_node = m.nextNode,
                                          ![s].final_total = m.newRunningTotal]
                    ELSE sessions
               /\ appliedOutcomes' =
                    IF dbOk /\ s \in DOMAIN sessions
                    THEN [appliedOutcomes EXCEPT ![s] =
                            Append(@, [trade_id |-> t,
                                       profit_loss |-> m.profit_loss])]
                    ELSE appliedOutcomes
               /\ monitor' =
                    IF dbOk /\ decisionTree[m.nextNode].final
                    THEN [monitor EXCEPT ![t].pc = "finish"]
                    ELSE [monitor EXCEPT ![t] = MonitorDone]
               /\ UNCHANGED nodeJumpRejected
    /\ UNCHANGED <<session_steps, trade_signals, callback, callbacksAccepted,
                   overlaps, jump,
                   memoryVars, sideVars>>

\* the last statement: executeRollback's INSERT of the ROLLBACK step when the
\* jump was rejected, otherwise completeSession's UPDATE
MonitorFinish(t, dbOk) ==
    /\ monitor[t].pc = "finish"
    /\ SqlStatement(dbOk)
    /\ LET m == monitor[t]
           s == m.session_id
           step == [node_name |-> m.rollbackToNode, action |-> "ROLLBACK",
                    step_type |-> "DECISION", stake_result |-> null,
                    trade_result_actual |-> null]
       IN IF ~m.isValid
          THEN /\ session_steps' =
                    IF dbOk THEN InsertStep(s, step) ELSE session_steps
               /\ nodeJumpRejected' = [nodeJumpRejected EXCEPT ![s] = TRUE]
               /\ UNCHANGED sessions
          ELSE /\ sessions' =
                    IF dbOk /\ s \in DOMAIN sessions
                    THEN [sessions EXCEPT ![s].is_completed = TRUE,
                                          ![s].final_total = m.newRunningTotal]
                    ELSE sessions
               /\ UNCHANGED <<session_steps, nodeJumpRejected>>
    /\ monitor' = [monitor EXCEPT ![t] = MonitorDone]
    /\ UNCHANGED <<trade_signals, callback, appliedOutcomes,
                   callbacksAccepted, overlaps, jump,
                   memoryVars, sideVars>>

\* ------------------------------------------------------------------------
\* POST /api/webhook/trade-result: processTradeResult, one awaited statement
\* a step
\* ------------------------------------------------------------------------

\* the request is taken by the first free slot
FreeSlot(c) ==
    /\ callback[c].pc = "idle"
    /\ \A d \in CallbackSlots : d < c => callback[d].pc # "idle"

\* exceptionHandler.handleNodeJumpValidation: the ExceptionHandler class has
\* no such method, so the call throws a TypeError
handleNodeJumpValidationThrows ==
    TRUE

\* the request arrives; getSessionData; the completed check; the edge lookup;
\* the node-jump validation.  Every rejection returns success: false and
\* leaves both tables as they are.
TradeResultCallback(c, t, s, result, dbOk) ==
    /\ FreeSlot(c)
    /\ SqlStatement(dbOk)
    /\ LET pnl == ProfitLoss(t, result)
           found == dbOk /\ s \in DOMAIN sessions
           sessionData == sessions[s]
           notCompleted == ~sessionData.is_completed
           newTotal == sessionData.final_total + pnl
           currentNode == sessionData.current_node
           hasNode == currentNode \in NodeIds
           node == decisionTree[currentNode]
           edge == IF result = "win" THEN node.win ELSE node.loss
           nextNode == IF edge # undefined THEN edge ELSE End
           isCompleted == nextNode = End \/ node.final
           nodeJumpValidation == CallbackValidateNodeJump(currentNode, nextNode)
       IN IF found /\ notCompleted /\ hasNode
          THEN IF nodeJumpValidation.requiresRollback
               THEN /\ handleNodeJumpValidationThrows
                    /\ nodeJumpRejected' = [nodeJumpRejected EXCEPT ![s] = TRUE]
                    /\ UNCHANGED <<callback, callbacksAccepted, overlaps>>
               ELSE /\ callbacksAccepted < MaxCallbacks
                    /\ StartHandler
                    /\ callbacksAccepted' = callbacksAccepted + 1
                    /\ callback' = [callback EXCEPT ![c] =
                          [pc |-> "updateSession", trade_id |-> t,
                           session_id |-> s, result |-> result,
                           profit_loss |-> pnl, nextNode |-> nextNode,
                           newTotal |-> newTotal, isCompleted |-> isCompleted]]
                    /\ UNCHANGED nodeJumpRejected
          ELSE UNCHANGED <<callback, nodeJumpRejected, callbacksAccepted,
                           overlaps>>
    /\ UNCHANGED <<sessions, session_steps, trade_signals, monitor,
                   appliedOutcomes, jump,
                   memoryVars, sideVars>>

\* updateSession: one UPDATE of current_node, final_total and is_completed
CallbackUpdateSession(c, dbOk) ==
    /\ callback[c].pc = "updateSession"
    /\ SqlStatement(dbOk)
    /\ LET r == callback[c]
           s == r.session_id
           written == dbOk /\ s \in DOMAIN sessions
       IN /\ sessions' =
               IF written
               THEN [sessions EXCEPT ![s].current_node = r.nextNode,
                                     ![s].final_total = r.newTotal,
                                     ![s].is_completed = r.isCompleted]
               ELSE sessions
          /\ appliedOutcomes' =
               IF written
               THEN [appliedOutcomes EXCEPT ![s] =
                       Append(@, [trade_id |-> r.trade_id,
                                  profit_loss |-> r.profit_loss])]
               ELSE appliedOutcomes
          /\ callback' =
               IF dbOk THEN [callback EXCEPT ![c].pc = "recordResult"]
               ELSE [callback EXCEPT ![c] = CallbackIdle]
    /\ UNCHANGED <<session_steps, trade_signals, monitor, nodeJumpRejected,
                   callbacksAccepted, overlaps, jump,
                   memoryVars, sideVars>>

\* recordResultStep: the INSERT of the RESULT step, then the response
\* (updatePathSummary in between writes only sessions.path_summary, a column
\* that no handler reads back into current_node, final_total or is_completed)
CallbackRecordResult(c, dbOk) ==
    /\ callback[c].pc = "recordResult"
    /\ SqlStatement(dbOk)
    /\ LET r == callback[c]
           step == [node_name |-> toUpperCase(r.result),
                    action |-> "", step_type |-> "RESULT",
                    stake_result |-> null,
                    trade_result_actual |-> r.profit_loss]
       IN session_steps' =
            IF dbOk THEN InsertStep(r.session_id, step) ELSE session_steps
    /\ callback' = [callback EXCEPT ![c] = CallbackIdle]
    /\ UNCHANGED <<sessions, trade_signals, monitor, appliedOutcomes,
                   nodeJumpRejected, callbacksAccepted, overlaps, jump,
                   memoryVars, sideVars>>

\* ------------------------------------------------------------------------
\* The system
\* ------------------------------------------------------------------------

Next ==
    \/ \E t \in TradeIds, valid \in BOOLEAN, failAt \in WebhookFailures,
          status \in ExecutionStatus :
         TradeSignalWebhook(t, valid, failAt, status)
    \/ \E t \in TradeIds, dbOk \in BOOLEAN, result \in Results \cup {"none"} :
         MonitorCheck(t, dbOk, result)
    \/ \E t \in TradeIds, dbOk \in BOOLEAN : MonitorRecordResult(t, dbOk)
    \/ \E t \in TradeIds, dbOk \in BOOLEAN : MonitorReadSession(t, dbOk)
    \/ \E t \in TradeIds, dbOk \in BOOLEAN : MonitorWriteSession(t, dbOk)
    \/ \E t \in TradeIds, dbOk \in BOOLEAN : MonitorFinish(t, dbOk)
    \/ \E c \in CallbackSlots, t \in TradeIds, s \in SessionIds,
          result \in Results, dbOk \in BOOLEAN :
         TradeResultCallback(c, t, s, result, dbOk)
    \/ \E c \in CallbackSlots, dbOk \in BOOLEAN : CallbackUpdateSession(c, dbOk)
    \/ \E c \in CallbackSlots, dbOk \in BOOLEAN : CallbackRecordResult(c, dbOk)

\* the handlers within one lifetime of the server process
Spec ==
    Init /\ [][Next]_vars

\* ------------------------------------------------------------------------
\* The trade-signal endpoint and the monitor it starts, across restarts of
\* the server process
\* ------------------------------------------------------------------------

NextSignal ==
    \/ \E t \in TradeIds, valid \in BOOLEAN, failAt \in WebhookFailures,
          status \in ExecutionStatus :
         TradeSignalWebhook(t, valid, failAt, status)
    \/ Restart
    \/ \E t \in TradeIds, dbOk \in BOOLEAN, result \in Results \cup {"none"} :
         MonitorCheck(t, dbOk, result)
    \/ \E t \in TradeIds, dbOk \in BOOLEAN : MonitorRecordResult(t, dbOk)
    \/ \E t \in TradeIds, dbOk \in BOOLEAN : MonitorReadSession(t, dbOk)
    \/ \E t \in TradeIds, dbOk \in BOOLEAN : MonitorWriteSession(t, dbOk)
    \/ \E t \in TradeIds, dbOk \in BOOLEAN : MonitorFinish(t, dbOk)

SpecSignal ==
    Init /\ [][NextSignal]_vars

\* the trade-signal requests alone, in a process that may be restarted: no
\* result arrives in between
NextRequests ==
    \/ \E t \in TradeIds, valid \in BOOLEAN, failAt \in WebhookFailures,
          status \in ExecutionStatus :
          TradeSignalWebhook(t, valid, failAt, status)
    \/ Restart

SpecRequests ==
    Init /\ [][NextRequests]_vars

\* ------------------------------------------------------------------------
\* The two node-jump validators applied to one arbitrary pair of node names
\* ------------------------------------------------------------------------

\* a proposed node is node.win or node.loss, or 'End' where the node has none
ProposedNodes ==
    NodeIds \cup {End}

InitJump ==
    /\ sessions = [s \in {} |-> 0]
    /\ session_steps = [s \in SessionIds |-> EmptyBag]
    /\ trade_signals = [t \in {} |-> 0]
    /\ monitor = [t \in TradeIds |-> MonitorIdle]
    /\ callback = [c \in CallbackSlots |-> CallbackIdle]
    /\ appliedOutcomes = [s \in SessionIds |-> <<>>]
    /\ nodeJumpRejected = [s \in SessionIds |-> FALSE]
    /\ dbFailures = 0
    /\ callbacksAccepted = 0
    /\ overlaps = 0
    /\ MemoryInit
    /\ SideInit
    /\ \E currentNode \in NodeIds, proposedNode \in ProposedNodes :
         jump = [JumpUnchecked EXCEPT !.currentNode = currentNode,
                                      !.proposedNode = proposedNode]

Verdict(isValid) ==
    IF isValid THEN "valid" ELSE "invalid"

JumpCallbackValidate ==
    /\ jump.callbackIsValid = "unchecked"
    /\ jump' = [jump EXCEPT !.callbackIsValid =
         Verdict(CallbackValidateNodeJump(jump.currentNode,
                                          jump.proposedNode).isValid)]
    /\ UNCHANGED <<sessions, session_steps, trade_signals, monitor, callback,
                   appliedOutcomes, nodeJumpRejected, dbFailures,
                   callbacksAccepted, overlaps, memoryVars, sideVars>>

JumpHandlerValidate ==
    /\ jump.handlerIsValid = "unchecked"
    /\ jump' = [jump EXCEPT !.handlerIsValid =
         Verdict(validateNodeJump(jump.currentNode, jump.proposedNode).isValid)]
    /\ UNCHANGED <<sessions, session_steps, trade_signals, monitor, callback,
                   appliedOutcomes, nodeJumpRejected, dbFailures,
                   callbacksAccepted, overlaps, memoryVars, sideVars>>

NextJump ==
    \/ JumpCallbackValidate
    \/ JumpHandlerValidate

SpecJump ==
    InitJump /\ [][NextJump]_vars

\* ------------------------------------------------------------------------
\* TradingPlatformService.executeTrade on its own: the attempts of one order,
\* the waits between them, the partial-fill update and the recorded step
\* ------------------------------------------------------------------------

\* how many executeTrade calls are made for the session
MaxExecutions ==
    2

maxRetries ==
    3

\* milliseconds
retryDelay ==
    5000

\* a retry that waits retryDelay every time
FixedDelay(attempt) ==
    retryDelay

\* const delay = retryDelay * Math.pow(2, attempt - 1)
delay(attempt) ==
    retryDelay * 2 ^ (attempt - 1)

\* messages of the errors an attempt can throw: one for each entry of
\* retryableErrors, in the capitalisation platforms use, and some that
\* hold none of them
ErrorChars ==
      ("Network error" :>
        <<"N", "e", "t", "w", "o", "r", "k", " ", "e", "r", "r", "o", "r">>)
   @@ ("Request timeout" :>
        <<"R", "e", "q", "u", "e", "s", "t", " ", "t", "i", "m", "e", "o", "u", "t">>)
   @@ ("Connection refused" :>
        <<"C", "o", "n", "n", "e", "c", "t", "i", "o", "n", " ", "r", "e", "f", "u", "s", "e", "d">>)
   @@ ("Temporary failure" :>
        <<"T", "e", "m", "p", "o", "r", "a", "r", "y", " ", "f", "a", "i", "l", "u", "r", "e">>)
   @@ ("Rate limit exceeded" :>
        <<"R", "a", "t", "e", " ", "l", "i", "m", "i", "t", " ", "e", "x", "c", "e", "e", "d", "e", "d">>)
   @@ ("Internal Server Error" :>
        <<"I", "n", "t", "e", "r", "n", "a", "l", " ", "S", "e", "r", "v", "e", "r", " ", "E", "r", "r", "o", "r">>)
   @@ ("Bad Gateway" :>
        <<"B", "a", "d", " ", "G", "a", "t", "e", "w", "a", "y">>)
   @@ ("Service Unavailable" :>
        <<"S", "e", "r", "v", "i", "c", "e", " ", "U", "n", "a", "v", "a", "i", "l", "a", "b", "l", "e">>)
   @@ ("Market unavailable" :>
        <<"M", "a", "r", "k", "e", "t", " ", "u", "n", "a", "v", "a", "i", "l", "a", "b", "l", "e">>)
   @@ ("Insufficient balance" :>
        <<"I", "n", "s", "u", "f", "f", "i", "c", "i", "e", "n", "t", " ", "b", "a", "l", "a", "n", "c", "e">>)
   @@ ("Invalid trade parameters" :>
        <<"I", "n", "v", "a", "l", "i", "d", " ", "t", "r", "a", "d", "e", " ", "p", "a", "r", "a", "m", "e", "t", "e", "r", "s">>)

ErrorMessages ==
    DOMAIN ErrorChars

\* error of a demo order that was returned, not thrown
DemoTradeFailed ==
    "Demo trade failed (simulated)"

retryableErrors ==
    <<<<"n", "e", "t", "w", "o", "r", "k">>,
      <<"t", "i", "m", "e", "o", "u", "t">>,
      <<"c", "o", "n", "n", "e", "c", "t", "i", "o", "n">>,
      <<"t", "e", "m", "p", "o", "r", "a", "r", "y">>,
      <<"r", "a", "t", "e", " ", "l", "i", "m", "i", "t">>,
      <<"s", "e", "r", "v", "e", "r", " ", "e", "r", "r", "o", "r">>,
      <<"g", "a", "t", "e", "w", "a", "y">>,
      <<"s", "e", "r", "v", "i", "c", "e", " ", "u", "n", "a", "v", "a", "i", "l", "a", "b", "l", "e">>>>

LowerCase ==
    ("A" :> "a") @@ ("B" :> "b") @@ ("C" :> "c") @@ ("D" :> "d") @@ ("E" :> "e") @@ ("F" :> "f")
    @@ ("G" :> "g") @@ ("H" :> "h") @@ ("I" :> "i") @@ ("J" :> "j") @@ ("K" :> "k") @@ ("L" :> "l")
    @@ ("M" :> "m") @@ ("N" :> "n") @@ ("O" :> "o") @@ ("P" :> "p") @@ ("Q" :> "q") @@ ("R" :> "r")
    @@ ("S" :> "s") @@ ("T" :> "t") @@ ("U" :> "u") @@ ("V" :> "v") @@ ("W" :> "w") @@ ("X" :> "x")
    @@ ("Y" :> "y") @@ ("Z" :> "z")

\* String.toLowerCase
toLowerCase(str) ==
    [i \in 1..Len(str) |->
        IF str[i] \in DOMAIN LowerCase THEN LowerCase[str[i]] ELSE str[i]]

\* String.includes
StringIncludes(str, searchString) ==
    \E i \in 0..(Len(str) - Len(searchString)) :
        SubSeq(str, i + 1, i + Len(searchString)) = searchString

\* a check that compares the message as it was thrown
isRetryableErrorCaseSensitive(error) ==
    \E k \in 1..Len(retryableErrors) :
        StringIncludes(ErrorChars[error], retryableErrors[k])

isRetryableError(error) ==
    LET errorMessage == toLowerCase(ErrorChars[error])
    IN \E k \in 1..Len(retryableErrors) :
           StringIncludes(errorMessage, retryableErrors[k])

\* trade_amount of the signal, and the notional the platform reports as
\* filled (actual_quantity * actual_entry_price)
TradeAmount ==
    100

FilledAmounts ==
    {50, 99, 100}

\* Math.abs(filledAmount - originalAmount) / originalAmount > 0.01
IsPartialFill(originalAmount, filledAmount) ==
    LET diff == IF filledAmount >= originalAmount
                THEN filledAmount - originalAmount
                ELSE originalAmount - filledAmount
    IN 100 * diff > originalAmount

\* the session the orders belong to, as createNewSession leaves it
ExecuteSession ==
    1

InitExecute ==
    /\ sessions = (ExecuteSession :>
                      [current_node |-> "Start", final_total |-> 0,
                       is_completed |-> FALSE])
    /\ session_steps =
          [s \in SessionIds |->
              IF s = ExecuteSession
              THEN SetToBag({[step_number |-> 1, node_name |-> "Start",
                              action |-> "start", step_type |-> "DECISION",
                              stake_value |-> TradeAmount,
                              execution_status |-> "none"]})
              ELSE EmptyBag]
    /\ trade_signals = [t \in {} |-> 0]
    /\ monitor = [t \in TradeIds |-> MonitorIdle]
    /\ callback = [c \in CallbackSlots |-> CallbackIdle]
    /\ appliedOutcomes = [s \in SessionIds |-> <<>>]
    /\ nodeJumpRejected = [s \in SessionIds |-> FALSE]
    /\ dbFailures = 0
    /\ callbacksAccepted = 0
    /\ overlaps = 0
    /\ jump = JumpUnchecked
    /\ MemoryInit
    /\ now = 0
    /\ sync = SyncIdle
    /\ exec = ExecIdle
    /\ cacheResult = NoCacheResult
    /\ overnight_trades = [t \in {} |-> 0]
    /\ activeTrades = [t \in {} |-> 0]
    /\ overnightLog = NoScan
    /\ solver = SolverIdle
    /\ intake = IntakeIdle
    /\ writers = WritersIdle
    /\ currentPath = <<"Start">>
    /\ firstCached = [s \in {} |-> 0]

executeUnchanged ==
    <<sessions, trade_signals, monitor, callback, appliedOutcomes,
      nodeJumpRejected, callbacksAccepted, overlaps, jump, memoryVars, now,
      sync, cacheResult, overnight_trades, activeTrades, overnightLog, solver, intake, writers, currentPath, firstCached>>

\* executeTrade is called: the loop starts with attempt 1
ExecuteTrade ==
    /\ exec.pc \in {"idle", "done"}
    /\ exec.calls < MaxExecutions
    /\ exec' = [ExecIdle EXCEPT !.pc = "attempt",
                                !.session_id = ExecuteSession,
                                !.calls = exec.calls + 1,
                                !.attempt = 1,
                                !.originalAmount = TradeAmount]
    /\ UNCHANGED <<session_steps, dbFailures, executeUnchanged>>

\* the attempt throws (validateTradeParameters or the platform call): the
\* loop ends when the error is not retryable or this was the last attempt,
\* else the wait before the next attempt starts
AttemptThrows(message) ==
    /\ exec.pc = "attempt"
    /\ exec' = [exec EXCEPT
                   !.lastError = message,
                   !.thrown = Append(@, message),
                   !.pc = IF ~isRetryableError(message)
                             \/ exec.attempt = maxRetries
                          THEN "failed" ELSE "wait"]
    /\ UNCHANGED <<session_steps, dbFailures, executeUnchanged>>

\* await new Promise(resolve => setTimeout(resolve, delay)); attempt++
RetryWait ==
    /\ exec.pc = "wait"
    /\ exec' = [exec EXCEPT !.waits = Append(@, delay(exec.attempt)),
                            !.attempt = @ + 1,
                            !.pc = "attempt"]
    /\ UNCHANGED <<session_steps, dbFailures, executeUnchanged>>

\* the platform call returns an execution: FAILED (the demo platform returns
\* its failures), or SUCCESS with the filled notional
AttemptReturns(status, filledAmount) ==
    /\ exec.pc = "attempt"
    /\ status = "FAILED" => filledAmount = 0
    /\ status = "SUCCESS" => filledAmount \in FilledAmounts
    /\ LET partial == /\ status = "SUCCESS"
                      /\ IsPartialFill(exec.originalAmount, filledAmount)
       IN exec' = [exec EXCEPT
                      !.status = status,
                      !.error = IF status = "FAILED" THEN DemoTradeFailed
                                ELSE NoError,
                      !.filledAmount = filledAmount,
                      !.partialFill = partial,
                      !.pc = IF partial THEN "partialFill" ELSE "record"]
    /\ UNCHANGED <<session_steps, dbFailures, executeUnchanged>>

\* the rows of the session's steps with the given type
StepsOfType(s, type) ==
    {row \in BagToSet(session_steps[s]) : row.step_type = type}

\* SELECT MAX(step_number) over a set of rows; COALESCE(..., 0)
MaxStepNumber(rows) ==
    IF rows = {} THEN 0
    ELSE CHOOSE n \in {row.step_number : row \in rows} :
             \A row \in rows : row.step_number <= n

\* ExceptionHandler.handlePartialFill: the UPDATE sets stake_value of the
\* EXECUTE step with the highest step_number; an error is logged
HandlePartialFill(dbOk) ==
    /\ exec.pc = "partialFill"
    /\ SqlStatement(dbOk)
    /\ LET s == exec.session_id
           last == MaxStepNumber(StepsOfType(s, "EXECUTE"))
           updated ==
               {IF row.step_type = "EXECUTE" /\ row.step_number = last
                THEN [row EXCEPT !.stake_value = exec.filledAmount]
                ELSE row : row \in BagToSet(session_steps[s])}
       IN session_steps' =
             IF dbOk THEN [session_steps EXCEPT ![s] = SetToBag(updated)]
             ELSE session_steps
    /\ exec' = [exec EXCEPT !.pc = "record"]
    /\ UNCHANGED executeUnchanged

\* the loop is left without a result: failedExecution keeps the message of
\* lastError
BuildFailedExecution ==
    /\ exec.pc = "failed"
    /\ exec' = [exec EXCEPT !.status = "FAILED",
                            !.error = exec.lastError,
                            !.pc = "record"]
    /\ UNCHANGED <<session_steps, dbFailures, executeUnchanged>>

\* recordExecutionStep, then executeTrade returns the execution: the INSERT
\* takes the next step_number and writes stake_value 0; an error is logged
RecordExecutionStep(dbOk) ==
    /\ exec.pc = "record"
    /\ SqlStatement(dbOk)
    /\ LET s == exec.session_id
           stepNumber == MaxStepNumber(BagToSet(session_steps[s])) + 1
           row == [step_number |-> stepNumber, node_name |-> "EXECUTE",
                   action |-> IF exec.status = "SUCCESS" THEN "execute"
                              ELSE "failed",
                   step_type |-> "EXECUTE", stake_value |-> 0,
                   execution_status |-> exec.status]
       IN /\ session_steps' =
                IF dbOk
                THEN [session_steps EXCEPT ![s] = @ (+) SetToBag({row})]
                ELSE session_steps
          /\ exec' = [exec EXCEPT
                         !.step_number = IF dbOk THEN stepNumber ELSE 0,
                         !.pc = "done"]
    /\ UNCHANGED executeUnchanged

NextExecute ==
    \/ ExecuteTrade
    \/ \E message \in ErrorMessages : AttemptThrows(message)
    \/ RetryWait
    \/ \E status \in ExecutionStatus, filledAmount \in FilledAmounts \cup {0} :
          AttemptReturns(status, filledAmount)
    \/ \E dbOk \in BOOLEAN : HandlePartialFill(dbOk)
    \/ BuildFailedExecution
    \/ \E dbOk \in BOOLEAN : RecordExecutionStep(dbOk)

SpecExecute ==
    InitExecute /\ [][NextExecute]_vars

\* ------------------------------------------------------------------------
\* ExceptionHandler's cache of session data on its own: handleDatabaseFailure
\* called by a request whose statement failed, synchronizeCachedSessions
\* called when the database is back, and the clock
\* ------------------------------------------------------------------------

\* how many times handleDatabaseFailure is called, and how many statements
\* of a synchronization fail because the database is down
MaxCacheFailures ==
    4

\* 60 * 60 * 1000 milliseconds
cacheTimeoutMs ==
    3600000

\* the instants of Date.now() that are told apart: the start, half an hour,
\* one hour and one hour and a millisecond later
Clock ==
    {0, 1800000, 3600000, 3600001}

\* columns of the sessions table (CREATE TABLE sessions and the added
\* session_name)
SessionsColumns ==
    {"id", "session_id", "session_name", "timestamp", "result",
     "initial_amount", "final_total", "session_notes", "duration",
     "is_completed", "current_node", "path_summary", "session_start_time",
     "last_action_timestamp", "created_at", "updated_at"}

\* columns named by the INSERT INTO sessions of synchronizeCachedSessions
SyncInsertColumns ==
    {"session_id", "trade_id", "symbol", "action", "entry_price",
     "target_price", "stop_price", "current_node", "initial_amount",
     "created_at", "updated_at"}

\* columns set by the UPDATE sessions of synchronizeCachedSessions
SyncUpdateColumns ==
    {"current_node", "initial_amount", "updated_at"}

\* a statement on sessions runs when the database answers and the table has
\* every column the statement names; otherwise it throws
StatementRuns(columns, dbOk) ==
    dbOk /\ columns \subseteq SessionsColumns

\* the database holds any of the sessions, each at Start as createNewSession
\* wrote it; nothing is cached
InitCache ==
    /\ \E created \in SUBSET SessionIds :
          sessions = [s \in created |->
                         [current_node |-> "Start", final_total |-> 0,
                          is_completed |-> FALSE]]
    /\ session_steps = [s \in SessionIds |-> EmptyBag]
    /\ trade_signals = [t \in {} |-> 0]
    /\ monitor = [t \in TradeIds |-> MonitorIdle]
    /\ callback = [c \in CallbackSlots |-> CallbackIdle]
    /\ appliedOutcomes = [s \in SessionIds |-> <<>>]
    /\ nodeJumpRejected = [s \in SessionIds |-> FALSE]
    /\ dbFailures = 0
    /\ callbacksAccepted = 0
    /\ overlaps = 0
    /\ jump = JumpUnchecked
    /\ MemoryInit
    /\ SideInit

cacheUnchanged ==
    <<session_steps, trade_signals, monitor, callback, appliedOutcomes,
      nodeJumpRejected, callbacksAccepted, overlaps, jump, processedSignals,
      restarts, webhookResponse, exec, overnight_trades, activeTrades, overnightLog, solver, intake, writers, currentPath>>

\* time passes
Tick ==
    /\ \E later \in Clock :
          /\ later > now
          /\ \A between \in Clock : ~(now < between /\ between < later)
          /\ now' = later
    /\ UNCHANGED <<sessions, dbFailures, cachedSessions, sync, cacheResult,
                   cacheUnchanged, firstCached>>

\* a request for session s could not write to the database and calls
\* exceptionHandler.handleDatabaseFailure with the session's data (the
\* signal's id is the same in every call for a session)
DatabaseFailure(s) ==
    /\ dbFailures < MaxCacheFailures
    /\ dbFailures' = dbFailures + 1
    /\ LET sessionData ==
              [sessionId |-> s,
               trade_id |-> CHOOSE t \in TradeIds :
                               \A u \in TradeIds : t <= u,
               currentNode |-> IF s \in DOMAIN sessions
                               THEN sessions[s].current_node ELSE "Start",
               timestamp |-> now, retryCount |-> 0]
           cache == handleDatabaseFailure(sessionData)
       IN /\ cachedSessions' = cache
          /\ cacheResult' = CacheResultOf(s, cache)
    /\ firstCached' = IF s \in DOMAIN cachedSessions THEN firstCached
                      ELSE (s :> now) @@ firstCached
    /\ UNCHANGED <<sessions, now, sync, cacheUnchanged>>

\* synchronizeCachedSessions is called: currentTime = Date.now()
SynchronizeStart ==
    /\ sync.pc = "idle"
    /\ cachedSessions # <<>>
    /\ sync' = [SyncIdle EXCEPT !.pc = "running", !.currentTime = now]
    /\ UNCHANGED <<sessions, dbFailures, cachedSessions, now, cacheResult,
                   cacheUnchanged, firstCached>>

\* one turn of the loop over the entries of the Map: an expired entry is
\* noted; for another one the SELECT and the INSERT or UPDATE are awaited
\* and the entry is deleted when neither throws
SynchronizeEntry(s, dbOk) ==
    /\ sync.pc = "running"
    /\ s \in DOMAIN cachedSessions \ sync.visited
    /\ LET cachedData == cachedSessions[s]
           expired == sync.currentTime - cachedData.timestamp > cacheTimeoutMs
           absent == s \notin DOMAIN sessions
           runs == IF absent THEN StatementRuns(SyncInsertColumns, dbOk)
                   ELSE StatementRuns(SyncUpdateColumns, dbOk)
       IN IF expired
          THEN /\ dbOk
               /\ sync' = [sync EXCEPT !.visited = @ \cup {s},
                                       !.expiredSessions = @ \cup {s}]
               /\ UNCHANGED <<sessions, cachedSessions, dbFailures>>
          ELSE /\ dbOk \/ dbFailures < MaxCacheFailures
               /\ dbFailures' = IF dbOk THEN dbFailures ELSE dbFailures + 1
               /\ sessions' =
                    IF ~runs THEN sessions
                    ELSE IF absent
                    THEN sessions @@
                            (s :> [current_node |-> cachedData.currentNode,
                                   final_total |-> 0, is_completed |-> FALSE])
                    ELSE [sessions EXCEPT
                             ![s].current_node = cachedData.currentNode]
               /\ cachedSessions' =
                    IF runs
                    THEN [x \in DOMAIN cachedSessions \ {s} |->
                             cachedSessions[x]]
                    ELSE cachedSessions
               /\ sync' = [sync EXCEPT
                             !.visited = @ \cup {s},
                             !.synced = IF runs THEN @ + 1 ELSE @,
                             !.failed = IF runs THEN @ ELSE @ + 1]
    /\ firstCached' = [x \in DOMAIN cachedSessions' |-> firstCached[x]]
    /\ UNCHANGED <<now, cacheResult, cacheUnchanged>>

\* the loop has ended: the expired entries are deleted and the pass returns
SynchronizeEnd ==
    /\ sync.pc = "running"
    /\ DOMAIN cachedSessions \subseteq sync.visited
    /\ cachedSessions' =
          [x \in DOMAIN cachedSessions \ sync.expiredSessions |->
              cachedSessions[x]]
    /\ sync' = [sync EXCEPT !.pc = "idle"]
    /\ firstCached' = [x \in DOMAIN cachedSessions' |-> firstCached[x]]
    /\ UNCHANGED <<sessions, dbFailures, now, cacheResult, cacheUnchanged>>

NextCache ==
    \/ Tick
    \/ \E s \in SessionIds : DatabaseFailure(s)
    \/ SynchronizeStart
    \/ \E s \in SessionIds, dbOk \in BOOLEAN : SynchronizeEntry(s, dbOk)
    \/ SynchronizeEnd

SpecCache ==
    InitCache /\ [][NextCache]_vars

\* ------------------------------------------------------------------------
\* OvernightTradeManager on its own: trades are registered and closed by
\* hand, the process is restarted and loads its trades from the database
\* ------------------------------------------------------------------------

\* how many trade ids are registered
MaxOvernightTrades ==
    2

\* how many times checkOvernightTrades is called
MaxScans ==
    2

OvernightTradeIds ==
    1..MaxOvernightTrades

\* hoursOpen is (now - entry_time) / (1000 * 60 * 60)
msPerHour ==
    1000 * 60 * 60

\* the scan considers a trade when hoursOpen > 16
hoursOpenLimit ==
    16

\* the instants of the clock, in ms: the start, 16 hours later, and just after
OvernightClock ==
    {0, hoursOpenLimit * msPerHour, hoursOpenLimit * msPerHour + 1}

InitOvernight ==
    /\ sessions = [s \in {} |-> 0]
    /\ session_steps = [s \in SessionIds |-> EmptyBag]
    /\ trade_signals = [t \in {} |-> 0]
    /\ monitor = [t \in TradeIds |-> MonitorIdle]
    /\ callback = [c \in CallbackSlots |-> CallbackIdle]
    /\ appliedOutcomes = [s \in SessionIds |-> <<>>]
    /\ nodeJumpRejected = [s \in SessionIds |-> FALSE]
    /\ dbFailures = 0
    /\ callbacksAccepted = 0
    /\ overlaps = 0
    /\ jump = JumpUnchecked
    /\ MemoryInit
    /\ SideInit

overnightUnchanged ==
    <<sessions, session_steps, trade_signals, monitor, callback,
      appliedOutcomes, nodeJumpRejected, callbacksAccepted, overlaps, jump,
      processedSignals, cachedSessions, webhookResponse, sync, exec,
      cacheResult, solver, intake, writers, currentPath, firstCached>>

\* time passes
OvernightTick ==
    /\ \E later \in OvernightClock :
          /\ later > now
          /\ \A between \in OvernightClock :
                ~(now < between /\ between < later)
          /\ now' = later
    /\ UNCHANGED <<dbFailures, restarts, overnight_trades, activeTrades,
                   overnightLog, overnightUnchanged>>

\* registerTrade: INSERT ... ON CONFLICT (trade_id) DO UPDATE, which sets
\* status and entry_time only for a new row, then activeTrades.set with
\* status 'active' and entry_time new Date(); when the statement throws,
\* false is returned and nothing is stored
registerTrade(tradeId, overnightCloseEnabled, dbOk) ==
    /\ SqlStatement(dbOk)
    /\ overnight_trades' =
          IF ~dbOk THEN overnight_trades
          ELSE IF tradeId \notin DOMAIN overnight_trades
          THEN overnight_trades @@
                  (tradeId :> [status |-> "active",
                               overnight_close_enabled |-> overnightCloseEnabled,
                               entry_time |-> now])
          ELSE [overnight_trades EXCEPT
                  ![tradeId].overnight_close_enabled = overnightCloseEnabled]
    /\ activeTrades' =
          IF dbOk
          THEN Upsert(activeTrades, tradeId,
                      [status |-> "active",
                       overnightCloseEnabled |-> overnightCloseEnabled,
                       entry_time |-> now])
          ELSE activeTrades
    /\ UNCHANGED <<restarts, now, overnightLog, overnightUnchanged>>

\* manualClose: false when the trade is not in activeTrades; else the UPDATE
\* sets status = 'closed' and the entry in memory is closed, whatever its
\* status was, and true is returned; when the statement throws, false is
\* returned and nothing is changed
manualClose(tradeId, dbOk) ==
    IF tradeId \notin DOMAIN activeTrades
    THEN /\ dbOk
         /\ overnightLog' =
               [overnightLog EXCEPT
                  !.closed = [status |-> "undefined", returned |-> FALSE]]
         /\ UNCHANGED <<dbFailures, overnight_trades, activeTrades, restarts, now,
                        overnightUnchanged>>
    ELSE /\ SqlStatement(dbOk)
         /\ overnight_trades' =
               IF dbOk /\ tradeId \in DOMAIN overnight_trades
               THEN [overnight_trades EXCEPT ![tradeId].status = "closed"]
               ELSE overnight_trades
         /\ activeTrades' =
               IF dbOk THEN [activeTrades EXCEPT ![tradeId].status = "closed"]
               ELSE activeTrades
         /\ overnightLog' =
               [overnightLog EXCEPT
                  !.closed = [status |-> activeTrades[tradeId].status,
                              returned |-> dbOk]]
         /\ UNCHANGED <<restarts, now, overnightUnchanged>>

\* DELETE /api/overnight-trades: the row is deleted from overnight_trades,
\* 404 when there was none, 500 when the statement throws; the manager is
\* not called
DELETE(tradeId, dbOk) ==
    /\ SqlStatement(dbOk)
    /\ overnight_trades' =
          IF dbOk
          THEN [t \in DOMAIN overnight_trades \ {tradeId} |-> overnight_trades[t]]
          ELSE overnight_trades
    /\ UNCHANGED <<activeTrades, restarts, now, overnightLog, overnightUnchanged>>

\* getActiveTrades: the entries of the Map whose status is 'active'
getActiveTrades ==
    {tradeId \in DOMAIN activeTrades : activeTrades[tradeId].status = "active"}

\* checkOvernightTrades: for every active trade with overnightCloseEnabled
\* that has been open for more than 16 hours a line is logged ("approaching
\* overnight, considering close"); no statement is sent to the database and
\* no entry of the Map is changed
checkOvernightTrades ==
    /\ overnightLog.scans < MaxScans
    /\ overnightLog' =
          [scans |-> overnightLog.scans + 1,
           at |-> now,
           closed |-> overnightLog.closed,
           considered |->
              {tradeId \in getActiveTrades :
                  /\ activeTrades[tradeId].overnightCloseEnabled
                  /\ now - activeTrades[tradeId].entry_time
                        > hoursOpenLimit * msPerHour}]
    /\ UNCHANGED <<dbFailures, restarts, now, overnight_trades, activeTrades,
                   overnightUnchanged>>

\* the module is initialised in a new process: an empty Map, then
\* loadActiveTrades sets the rows WHERE status = 'active'; an error of the
\* SELECT is logged
loadActiveTrades(dbOk) ==
    /\ restarts < MaxRestarts
    /\ restarts' = restarts + 1
    /\ SqlStatement(dbOk)
    /\ activeTrades' =
          IF dbOk
          THEN [tradeId \in {x \in DOMAIN overnight_trades :
                                overnight_trades[x].status = "active"} |->
                   [status |-> overnight_trades[tradeId].status,
                    overnightCloseEnabled |->
                       overnight_trades[tradeId].overnight_close_enabled,
                    entry_time |-> overnight_trades[tradeId].entry_time]]
          ELSE [tradeId \in {} |-> 0]
    /\ UNCHANGED <<now, overnight_trades, overnightLog, overnightUnchanged>>

NextOvernight ==
    \/ OvernightTick
    \/ \E tradeId \in OvernightTradeIds,
          overnightCloseEnabled \in BOOLEAN, dbOk \in BOOLEAN :
          registerTrade(tradeId, overnightCloseEnabled, dbOk)
    \/ \E tradeId \in OvernightTradeIds, dbOk \in BOOLEAN :
          manualClose(tradeId, dbOk)
    \/ \E tradeId \in OvernightTradeIds, dbOk \in BOOLEAN :
          DELETE(tradeId, dbOk)
    \/ checkOvernightTrades
    \/ \E dbOk \in BOOLEAN : loadActiveTrades(dbOk)

SpecOvernight ==
    InitOvernight /\ [][NextOvernight]_vars

\* ------------------------------------------------------------------------
\* BrokerCostService.adjustStakeForNetProfit on its own, with the demo
\* broker configuration: one step per pass of its loop, then the final
\* calculation. Amounts of money are integers in thousandths of a dollar,
\* rounded to the nearest after every multiplication or division; prices are
\* whole dollars and spreads are hundredths of a pip, so that the ratios the
\* code forms from them are exact. The code's numbers are IEEE doubles: a
\* division by zero gives Infinity or NaN and throws nothing.
\* ------------------------------------------------------------------------

\* one dollar
Scale ==
    1000

\* Number.POSITIVE_INFINITY (its negation is Number.NEGATIVE_INFINITY)
Infinity ==
    2147483647

\* Number.NaN as an amount of money
NotANumber ==
    2147483646

IsNotANumber(x) ==
    x = NotANumber

IsInfinite(x) ==
    x \in {Infinity, -Infinity}

Sign(x) ==
    IF x < 0 THEN -1 ELSE 1

\* one step of the multiplication by halving: twice the <<quotient,
\* remainder>> h, plus a / c when the multiplier is odd
HalfStep(h, a, odd, c) ==
    LET dCarry == IF h[2] >= c - h[2] THEN 1 ELSE 0
        dRem == IF dCarry = 1 THEN h[2] - (c - h[2]) ELSE h[2] + h[2]
        dQuot == h[1] + h[1] + dCarry
        aRem == a % c
        sCarry == IF dRem >= c - aRem THEN 1 ELSE 0
        sRem == IF sCarry = 1 THEN dRem - (c - aRem) ELSE dRem + aRem
    IN  IF ~odd THEN <<dQuot, dRem>>
        ELSE <<dQuot + (a \div c) + sCarry, sRem>>

RECURSIVE MulDivNat(_, _, _)
\* <<a * b \div c, (a * b) % c>> for naturals a, b and c > 0, found by
\* halving b, so that no intermediate value is above the quotient or c
MulDivNat(a, b, c) ==
    IF b = 0 THEN <<0, 0>>
    ELSE CHOOSE d \in {HalfStep(h, a, b % 2 = 1, c) :
                          h \in {MulDivNat(a, b \div 2, c)}} : TRUE

\* a division by zero that would give 0 where the double division gives
\* Infinity or NaN
DivisionByZeroGivesZero(x, p) ==
    0

\* x * p / 0 in doubles: NaN for 0 / 0, else Infinity with the sign of x * p
DivisionByZero(x, p) ==
    IF x = 0 \/ p = 0 THEN NotANumber ELSE Sign(x) * Sign(p) * Infinity

\* x * (p / q), which is also x / (q / p), for an amount x and numbers p, q
\* of one unit: the double operations with their results for zero, Infinity
\* and NaN operands, and the nearest thousandth for finite ones
Ratio(x, p, q) ==
    IF IsNotANumber(x) \/ IsNotANumber(p) \/ IsNotANumber(q) THEN NotANumber
    ELSE IF IsInfinite(q)
    THEN IF IsInfinite(x) \/ IsInfinite(p) THEN NotANumber ELSE 0
    ELSE IF IsInfinite(x) \/ IsInfinite(p)
    THEN IF x = 0 \/ p = 0 THEN NotANumber
         ELSE Sign(x) * Sign(p) * Sign(q) * Infinity
    ELSE IF q = 0 THEN DivisionByZero(x, p)
    ELSE LET absx == IF x < 0 THEN -x ELSE x
             absp == IF p < 0 THEN -p ELSE p
             absq == IF q < 0 THEN -q ELSE q
             d == MulDivNat(absx, absp, absq)
             nearest == d[1] + (IF d[2] >= absq - d[2] THEN 1 ELSE 0)
         IN  Sign(x) * Sign(p) * Sign(q) * nearest

\* x + y
Plus(x, y) ==
    IF IsNotANumber(x) \/ IsNotANumber(y) THEN NotANumber
    ELSE IF IsInfinite(x) THEN (IF y = -x THEN NotANumber ELSE x)
    ELSE IF IsInfinite(y) THEN y
    ELSE x + y

\* x - y
Minus(x, y) ==
    IF IsNotANumber(y) THEN NotANumber ELSE Plus(x, -y)

\* Math.min, Math.max and Math.abs
MathMin(x, y) ==
    IF IsNotANumber(x) \/ IsNotANumber(y) THEN NotANumber
    ELSE IF x <= y THEN x ELSE y

MathMax(x, y) ==
    IF IsNotANumber(x) \/ IsNotANumber(y) THEN NotANumber
    ELSE IF x >= y THEN x ELSE y

MathAbs(x) ==
    IF IsNotANumber(x) THEN NotANumber ELSE IF x < 0 THEN -x ELSE x

\* defaultBrokerConfigs.demo, the configuration of the exported instance
config ==
    [commissionValue |-> 5 * Scale,
     minCommission |-> 5 * Scale,
     maxCommission |-> 5 * Scale,
     defaultSpread |-> 300,
     spreadMultiplier |-> <<3, 2>>,
     longSwapRate |-> 0]

\* getCurrentSpread draws a spread between 75% and 125% of defaultSpread
CurrentSpreads ==
    {(config.defaultSpread * 5) \div 6, config.defaultSpread}

\* getRealTimeCostData: currentSpread is one draw; spreadToSL is another
\* draw times spreadMultiplier, and effectiveSLDistance is spreadToSL. The
\* data is cached for 30 seconds, so one call of the solver sees one value.
CostData ==
    {[currentSpread |-> s,
      spreadToSL |-> (b * config.spreadMultiplier[1])
                        \div config.spreadMultiplier[2],
      effectiveSLDistance |-> (b * config.spreadMultiplier[1])
                                 \div config.spreadMultiplier[2]] :
        s \in CurrentSpreads, b \in CurrentSpreads}

\* commissionType 'fixed'
calculateCommission(amount, price) ==
    MathMax(config.minCommission,
            MathMin(config.maxCommission, config.commissionValue))

\* amount * (spreadInPrice / price) with spreadInPrice = (spread / 10000) *
\* price: for a price above 0 the ratio is spread / 10000
calculateSpreadCost(amount, spread, price) ==
    Ratio(amount, spread, 100 * 10000)

\* lots * swapRate * days with lots = amount / (price * 100000)
calculateSwapCost(amount, price, days) ==
    Ratio(Ratio(amount, 1, price), config.longSwapRate * days, 100000)

\* min(nominalAmount * 0.01 / (adjustedSLDistance / 10000),
\*     nominalAmount * 0.1)
calculateMaxAllowedStake(nominalAmount, costData) ==
    LET adjustedSLDistance ==
           costData.effectiveSLDistance + costData.spreadToSL
        maxStake == Ratio(nominalAmount, 100 * 100, adjustedSLDistance)
    IN  MathMin(maxStake, Ratio(nominalAmount, 1, 10))

totalCostsOf(amount, costData, entryPrice) ==
    Plus(Plus(calculateCommission(amount, entryPrice),
              calculateSpreadCost(amount, costData.currentSpread, entryPrice)),
         calculateSwapCost(amount, entryPrice, 1))

\* calculateTradeCosts: the costs of the nominal amount, the stake that
\* would make the target net profit, its cap, and the costs of the capped
\* stake
calculateTradeCosts(nominalAmount, entryPrice, targetPrice, targetNetProfit, costData) ==
    LET totalCosts == totalCostsOf(nominalAmount, costData, entryPrice)
        requiredGrossProfit == Plus(targetNetProfit, totalCosts)
        priceDifference ==
           IF targetPrice >= entryPrice THEN targetPrice - entryPrice
           ELSE entryPrice - targetPrice
        requiredStake == Ratio(requiredGrossProfit, entryPrice, priceDifference)
        maxAllowedStake == calculateMaxAllowedStake(nominalAmount, costData)
        adjustedStake == MathMin(requiredStake, maxAllowedStake)
    IN  [netAmount |-> adjustedStake,
         totalCosts |-> totalCostsOf(adjustedStake, costData, entryPrice)]

maxIterations ==
    10

\* $0.01
tolerance ==
    Scale \div 100

\* the arguments of the calls: target net profits of 0 and 10 dollars with
\* each pair of prices, 1000 dollars with the prices 100000 -> 100075, and
\* 30 cents with the prices 100 -> 300
SolverInputs ==
    {[targetNetProfit |-> t * Scale, entryPrice |-> p[1],
      targetPrice |-> p[2], maxRiskAmount |-> m * Scale, costData |-> c] :
        t \in {0, 10},
        p \in {<<100, 102>>, <<100, 100>>, <<100, 150>>,
               <<100000, 100075>>, <<100000, 100010>>},
        m \in {100, 100000}, c \in CostData}
    \cup
    {[targetNetProfit |-> 1000 * Scale, entryPrice |-> 100000,
      targetPrice |-> 100075, maxRiskAmount |-> m * Scale, costData |-> c] :
        m \in {100, 100000},
        c \in {d \in CostData : d.currentSpread = 250}}
    \cup
    {[targetNetProfit |-> (3 * Scale) \div 10, entryPrice |-> 100,
      targetPrice |-> 300, maxRiskAmount |-> m * Scale, costData |-> c] :
        m \in {1, 100}, c \in CostData}

NoCostResult ==
    [netAmount |-> 0, totalCosts |-> 0]

\* let currentStake = targetNetProfit / 0.01; let iterations = 0
SolverCalled(input) ==
    [pc |-> "loop", calls |-> 1, input |-> input,
     currentStake |-> Ratio(input.targetNetProfit, 100, 1),
     iterations |-> 0, costCalculations |-> 0, costResult |-> NoCostResult,
     actualNetProfit |-> 0, zeroNetProfit |-> FALSE, capped |-> FALSE,
     converged |-> FALSE,
     result |-> [adjustedStake |-> 0, expectedNetProfit |-> 0,
                 totalCosts |-> 0]]

InitStake ==
    /\ sessions = [s \in {} |-> 0]
    /\ session_steps = [s \in SessionIds |-> EmptyBag]
    /\ trade_signals = [t \in {} |-> 0]
    /\ monitor = [t \in TradeIds |-> MonitorIdle]
    /\ callback = [c \in CallbackSlots |-> CallbackIdle]
    /\ appliedOutcomes = [s \in SessionIds |-> <<>>]
    /\ nodeJumpRejected = [s \in SessionIds |-> FALSE]
    /\ dbFailures = 0
    /\ callbacksAccepted = 0
    /\ overlaps = 0
    /\ jump = JumpUnchecked
    /\ MemoryInit
    /\ now = 0
    /\ sync = SyncIdle
    /\ exec = ExecIdle
    /\ cacheResult = NoCacheResult
    /\ overnight_trades = [t \in {} |-> 0]
    /\ activeTrades = [t \in {} |-> 0]
    /\ overnightLog = NoScan
    /\ solver \in {SolverCalled(input) : input \in SolverInputs}
    /\ intake = IntakeIdle
    /\ writers = WritersIdle
    /\ currentPath = <<"Start">>
    /\ firstCached = [s \in {} |-> 0]

stakeUnchanged ==
    <<sessions, session_steps, trade_signals, monitor, callback,
      appliedOutcomes, nodeJumpRejected, dbFailures, callbacksAccepted,
      overlaps, jump, memoryVars, now, sync, exec, cacheResult,
      overnight_trades, activeTrades, overnightLog, intake, writers, currentPath, firstCached>>

\* a loop that would make one pass more
LoopContinuesOnceMore(iterations) ==
    iterations <= maxIterations

\* the loop goes on while (iterations < maxIterations)
LoopContinues(iterations) ==
    iterations < maxIterations

\* await this.calculateTradeCosts(symbol, currentStake, ...), in the loop
\* and after it
SolverCalculateTradeCosts ==
    /\ solver.pc \in {"loop", "final"}
    /\ solver' =
          [solver EXCEPT
              !.pc = IF solver.pc = "loop" THEN "compare" ELSE "return",
              !.costCalculations = @ + 1,
              !.costResult =
                 calculateTradeCosts(solver.currentStake,
                                     solver.input.entryPrice,
                                     solver.input.targetPrice,
                                     solver.input.targetNetProfit,
                                     solver.input.costData)]
    /\ UNCHANGED stakeUnchanged

\* the rest of one pass of the while loop: return when the net profit is
\* within the tolerance, else scale currentStake by targetNetProfit /
\* actualNetProfit, cap it and break, or count the pass
SolverCompare ==
    /\ solver.pc = "compare"
    /\ LET in == solver.input
           costResult == solver.costResult
           priceDifference ==
              IF in.targetPrice >= in.entryPrice
              THEN in.targetPrice - in.entryPrice
              ELSE in.entryPrice - in.targetPrice
           actualNetProfit ==
              Minus(Ratio(costResult.netAmount, priceDifference,
                          in.entryPrice),
                    costResult.totalCosts)
           difference == MathAbs(Minus(actualNetProfit, in.targetNetProfit))
           scaled == Ratio(solver.currentStake, in.targetNetProfit,
                           actualNetProfit)
       IN  IF ~IsNotANumber(difference) /\ difference <= tolerance
           THEN solver' =
                   [solver EXCEPT
                       !.pc = "returned", !.converged = TRUE,
                       !.actualNetProfit = actualNetProfit,
                       !.result =
                          [adjustedStake |-> costResult.netAmount,
                           expectedNetProfit |-> actualNetProfit,
                           totalCosts |-> costResult.totalCosts]]
           ELSE IF ~IsNotANumber(scaled) /\ scaled > in.maxRiskAmount
           THEN solver' =
                   [solver EXCEPT
                       !.pc = "final", !.capped = TRUE,
                       !.actualNetProfit = actualNetProfit,
                       !.zeroNetProfit = @ \/ actualNetProfit = 0,
                       !.currentStake = in.maxRiskAmount]
           ELSE solver' =
                   [solver EXCEPT
                       !.pc = IF LoopContinues(solver.iterations + 1)
                              THEN "loop" ELSE "final",
                       !.actualNetProfit = actualNetProfit,
                       !.zeroNetProfit = @ \/ actualNetProfit = 0,
                       !.currentStake = scaled,
                       !.iterations = @ + 1]
    /\ UNCHANGED stakeUnchanged

\* after the final calculation: its netAmount is returned, with
\* expectedNetProfit: targetNetProfit
SolverReturn ==
    /\ solver.pc = "return"
    /\ solver' =
          [solver EXCEPT
              !.pc = "returned",
              !.result =
                 [adjustedStake |-> solver.costResult.netAmount,
                  expectedNetProfit |-> solver.input.targetNetProfit,
                  totalCosts |-> solver.costResult.totalCosts]]
    /\ UNCHANGED stakeUnchanged

NextStake ==
    \/ SolverCalculateTradeCosts
    \/ SolverCompare
    \/ SolverReturn

SpecStake ==
    InitStake /\ [][NextStake]_vars

\* ------------------------------------------------------------------------
\* The signal intake: SignalProcessor.validateTradeSignal, normalizeSignal,
\* and what the trade-signal endpoint stores for the signals it accepts.
\* A signal is the parsed JSON body: a function from the property names it
\* has to strings, a string being a sequence of characters.  Amounts are
\* numbers of hundredths.
\* ------------------------------------------------------------------------

MaxRequests ==
    2

Hundredths ==
    100

MAX_SIGNAL_AGE_HOURS ==
    24

\* the digits that str starts with
LeadingDigits(str) ==
    SubSeq(str, 1,
           CHOOSE n \in 0..Len(str) :
               /\ \A i \in 1..n : IsDigit(str[i])
               /\ n = Len(str) \/ ~IsDigit(str[n + 1]))

\* the decimal literal at the start of str: its digits, its fraction digits
\* and how many characters it takes (the strings of the inputs have no sign,
\* no exponent, no leading blank and at most two fraction digits)
DecimalPrefix(str) ==
    CHOOSE prefix \in
        {[whole |-> whole,
          fraction |-> SubSeq(fraction \o <<"0", "0">>, 1, 2),
          length |-> Len(whole) + (IF fraction = <<>> THEN 0 ELSE 1 + Len(fraction))] :
            whole \in {LeadingDigits(str)},
            fraction \in {IF Len(LeadingDigits(str)) < Len(str)
                              /\ str[Len(LeadingDigits(str)) + 1] = "."
                           THEN LeadingDigits(SubSeq(str, Len(LeadingDigits(str)) + 2, Len(str)))
                           ELSE <<>>}} : TRUE

\* parseFloat: the number at the start of the string, whatever follows it;
\* NaN when the string does not start with a number
parseFloat(str) ==
    CHOOSE number \in
        {IF prefix.whole = <<>> THEN NotANumber
         ELSE Hundredths * ParseDigits(prefix.whole, 0)
                  + ParseDigits(prefix.fraction, 0) :
            prefix \in {DecimalPrefix(str)}} : TRUE

\* Number(str): the number the whole string spells, 0 for the empty string,
\* NaN when anything else is in it
Number(str) ==
    CHOOSE number \in
        {IF str = <<>> THEN 0
         ELSE IF prefix.whole = <<>> \/ prefix.length # Len(str) THEN NotANumber
         ELSE Hundredths * ParseDigits(prefix.whole, 0)
                  + ParseDigits(prefix.fraction, 0) :
            prefix \in {DecimalPrefix(str)}} : TRUE

\* new Date(str).getTime(): the timestamps of the inputs are written as the
\* number of hours since the epoch; any other string is an Invalid Date
DateParse(str) ==
    IF str # <<>> /\ \A i \in 1..Len(str) : IsDigit(str[i])
    THEN ParseDigits(str, 0) * msPerHour
    ELSE NotANumber

requiredFields ==
    <<"action", "symbol", "timeframe", "time", "entry", "target", "stop",
      "id", "rr", "risk">>

\* !signal[field] || signal[field] === '' is false: the property is there
\* and is not the empty string
HasValue(signal, field) ==
    field \in DOMAIN signal /\ signal[field] # <<>>

validActions ==
    <<<<"b", "u", "y">>, <<"s", "e", "l", "l">>, <<"l", "o", "n", "g">>,
      <<"s", "h", "o", "r", "t">>>>

timeframeMap ==
       (<<"1">> :> <<"1", "m">>)
    @@ (<<"5">> :> <<"5", "m">>)
    @@ (<<"1", "5">> :> <<"1", "5", "m">>)
    @@ (<<"3", "0">> :> <<"3", "0", "m">>)
    @@ (<<"6", "0">> :> <<"1", "h">>)
    @@ (<<"2", "4", "0">> :> <<"4", "h">>)
    @@ (<<"1", "4", "4", "0">> :> <<"1", "d">>)
    @@ (<<"1", "0", "0", "8", "0">> :> <<"1", "w">>)

\* /^\d+[mhdw]$/.test(timeframe)
IsCanonicalTimeframe(timeframe) ==
    /\ Len(timeframe) >= 2
    /\ \A i \in 1..(Len(timeframe) - 1) : IsDigit(timeframe[i])
    /\ timeframe[Len(timeframe)] \in {"m", "h", "d", "w"}

NoFindings ==
    [errors |-> {}, warnings |-> {}]

validateAction(action) ==
    CHOOSE findings \in
        {IF ~Includes(validActions, normalizedAction)
         THEN [NoFindings EXCEPT !.errors = {"Invalid action"}]
         ELSE IF action # normalizedAction
              THEN [NoFindings EXCEPT !.warnings = {"Action normalized"}]
              ELSE NoFindings :
            normalizedAction \in {toLowerCase(action)}} : TRUE

validateTimeframe(timeframe) ==
    IF timeframe \in DOMAIN timeframeMap
    THEN [NoFindings EXCEPT !.warnings = {"Timeframe normalized"}]
    ELSE IF ~IsCanonicalTimeframe(timeframe)
         THEN [NoFindings EXCEPT !.errors = {"Invalid timeframe format"}]
         ELSE NoFindings

\* Math.abs(target - entry) / entry > 0.1, with entry = 0 dividing by zero
LargePriceRange(entry, target) ==
    IF entry = 0 THEN target # entry
    ELSE 10 * MathAbs(target - entry) > entry

validatePrices(signal) ==
    CHOOSE findings \in
        {IF IsNotANumber(entry) \/ IsNotANumber(target) \/ IsNotANumber(stop)
         THEN [NoFindings EXCEPT !.errors =
                  {"Entry, target, and stop must be valid numeric values"}]
         ELSE [errors |->
                    (IF action \in {validActions[1], validActions[3]}
                        /\ target <= entry
                     THEN {"For BUY orders: target must be greater than entry"}
                     ELSE {})
               \cup (IF action \in {validActions[1], validActions[3]}
                        /\ stop >= entry
                     THEN {"For BUY orders: stop must be less than entry"}
                     ELSE {})
               \cup (IF action \in {validActions[2], validActions[4]}
                        /\ target >= entry
                     THEN {"For SELL orders: target must be less than entry"}
                     ELSE {})
               \cup (IF action \in {validActions[2], validActions[4]}
                        /\ stop <= entry
                     THEN {"For SELL orders: stop must be greater than entry"}
                     ELSE {}),
               warnings |->
                    IF LargePriceRange(entry, target)
                    THEN {"Large price range detected"} ELSE {}] :
            entry \in {parseFloat(signal["entry"])},
            target \in {parseFloat(signal["target"])},
            stop \in {parseFloat(signal["stop"])},
            action \in {toLowerCase(signal["action"])}} : TRUE

\* a check that rejects a ratio above 10 instead of warning about it
validateRiskRewardRejectingHighRatio(signal) ==
    IF IsNotANumber(parseFloat(signal["rr"])) \/ IsNotANumber(parseFloat(signal["risk"]))
    THEN [NoFindings EXCEPT !.errors =
             {"Risk-reward ratio and risk must be valid numeric values"}]
    ELSE IF parseFloat(signal["rr"]) <= 0 \/ parseFloat(signal["rr"]) > 10 * Hundredths
         THEN [NoFindings EXCEPT !.errors = {"Risk-reward ratio must be positive"}]
         ELSE NoFindings

validateRiskReward(signal) ==
    CHOOSE findings \in
        {IF IsNotANumber(rr) \/ IsNotANumber(risk)
         THEN [NoFindings EXCEPT !.errors =
                  {"Risk-reward ratio and risk must be valid numeric values"}]
         ELSE [errors |->
                    IF rr <= 0 THEN {"Risk-reward ratio must be positive"}
                    ELSE {},
               warnings |->
                    (IF rr > 0 /\ rr < 1 * Hundredths
                     THEN {"Low risk-reward ratio"} ELSE {})
               \cup (IF rr > 10 * Hundredths
                     THEN {"Very high risk-reward ratio"} ELSE {})
               \cup (IF risk <= 0 \/ risk > 5 * Hundredths
                     THEN {"Risk percentage is outside recommended range"}
                     ELSE {})] :
            rr \in {parseFloat(signal["rr"])},
            risk \in {parseFloat(signal["risk"])}} : TRUE

\* an age check that only ever warns
validateSignalAgeWarningOnly(signalTime, clock) ==
    IF IsNotANumber(DateParse(signalTime)) \/ clock - DateParse(signalTime) <= msPerHour
    THEN NoFindings
    ELSE [NoFindings EXCEPT !.warnings = {"Signal age"}]

\* ageHours is NaN for an Invalid Date, and NaN compares false
validateSignalAge(signalTime, clock) ==
    CHOOSE findings \in
        {IF IsNotANumber(signalDate) THEN NoFindings
         ELSE IF clock - signalDate > MAX_SIGNAL_AGE_HOURS * msPerHour
              THEN [NoFindings EXCEPT !.errors = {"Signal is too old"}]
              ELSE IF clock - signalDate > msPerHour
                   THEN [NoFindings EXCEPT !.warnings = {"Signal age"}]
                   ELSE NoFindings :
            signalDate \in {DateParse(signalTime)}} : TRUE

\* the duplicate check (the inputs carry no confidence_score and no
\* signal_quality, which add warnings only)
validateSignalQuality(signal, processed) ==
    IF signal["id"] \in processed
    THEN [NoFindings EXCEPT !.errors = {"Signal ID has already been processed"}]
    ELSE NoFindings

\* SignalProcessor.validateTradeSignal: the result, and the processed ids
\* after the call
validateTradeSignal(signal, processed, clock) ==
    IF \E i \in 1..Len(requiredFields) : ~HasValue(signal, requiredFields[i])
    THEN [isValid |-> FALSE, errors |-> {"Missing required field"},
          warnings |-> {}, processedSignals |-> processed]
    ELSE CHOOSE result \in
            {[isValid |-> \A f \in findings : f.errors = {},
              errors |-> UNION {f.errors : f \in findings},
              warnings |-> UNION {f.warnings : f \in findings},
              processedSignals |-> processed \cup {signal["id"]}] :
                findings \in {{validateAction(signal["action"]),
                               validateTimeframe(signal["timeframe"]),
                               validatePrices(signal),
                               validateRiskReward(signal),
                               validateSignalAge(signal["time"], clock),
                               validateSignalQuality(signal, processed)}}} : TRUE

\* SignalProcessor.normalizeSignal
normalizeSignal(signal) ==
    [signal EXCEPT
       !["action"] = toLowerCase(@),
       !["timeframe"] = IF @ \in DOMAIN timeframeMap THEN timeframeMap[@]
                        ELSE @]

\* a signal that passes every check without a warning
ValidSignal ==
    [action |-> <<"b", "u", "y">>, symbol |-> <<"E", "U", "R", "U", "S", "D">>,
     timeframe |-> <<"1", "5", "m">>, time |-> <<"3", "0">>,
     entry |-> <<"1", "0", "0">>, target |-> <<"1", "0", "5">>,
     stop |-> <<"9", "5">>, id |-> <<"a">>, rr |-> <<"2">>,
     risk |-> <<"1">>]

\* the values a property takes in place of the valid signal's
FieldValues ==
    [action |-> {<<"B", "U", "Y">>, <<"l", "o", "n", "g">>, <<"h", "o", "l", "d">>, <<>>},
     symbol |-> {<<>>},
     timeframe |-> {<<"1", "5">>, <<"4", "5">>, <<"1", "h">>, <<"m">>, <<>>},
     time |-> {<<"2", "8">>, <<"0", "6">>, <<"0", "5">>, <<"n", "o", "w">>, <<>>},
     entry |-> {<<"1", "0", "0", "a", "b", "c">>, <<"a", "b", "c">>,
                <<"1", "0", "5">>, <<"9", "5">>, <<>>},
     target |-> {<<"a", "b", "c">>, <<"1", "0", "5", "x">>, <<"2", "0", "0">>, <<>>},
     stop |-> {<<"a", "b", "c">>, <<"1", "0", "0">>, <<>>},
     id |-> {<<"b">>, <<>>},
     rr |-> {<<"0">>, <<"0", ".", "5">>, <<"1", "1">>, <<"a", "b", "c">>, <<>>},
     risk |-> {<<"0">>, <<"0", ".", "0", "5">>, <<"6">>, <<"a", "b", "c">>, <<>>}]

\* a sell with its prices the other way round, in both spellings
SellSignals ==
    {[ValidSignal EXCEPT !["action"] = a, !["target"] = p[1], !["stop"] = p[2]] :
        a \in {<<"s", "e", "l", "l">>, <<"s", "h", "o", "r", "t">>},
        p \in {<<<<"9", "5">>, <<"1", "0", "5">>>>,
               <<<<"1", "0", "5">>, <<"9", "5">>>>,
               <<<<"1", "0", "0">>, <<"1", "0", "0">>>>}}

\* the example of scripts/test-improved-system.js and its long spelling
ExampleSignals ==
    {[ValidSignal EXCEPT !["action"] = a, !["timeframe"] = <<"1", "5">>] :
        a \in {<<"B", "U", "Y">>, <<"l", "o", "n", "g">>}}

\* the request bodies: the valid signal, one property changed or left out,
\* the sells and the examples
Signals ==
    {ValidSignal}
    \cup UNION {{[ValidSignal EXCEPT ![f] = v] : v \in FieldValues[f]} :
                   f \in DOMAIN FieldValues}
    \cup {[g \in DOMAIN ValidSignal \ {f} |-> ValidSignal[g]] : f \in DOMAIN ValidSignal}
    \cup SellSignals \cup ExampleSignals

\* Date.now() of the requests
IntakeClock ==
    30 * msPerHour

InitIntake ==
    /\ sessions = [s \in {} |-> 0]
    /\ session_steps = [s \in SessionIds |-> EmptyBag]
    /\ trade_signals = [t \in {} |-> 0]
    /\ monitor = [t \in TradeIds |-> MonitorIdle]
    /\ callback = [c \in CallbackSlots |-> CallbackIdle]
    /\ appliedOutcomes = [s \in SessionIds |-> <<>>]
    /\ nodeJumpRejected = [s \in SessionIds |-> FALSE]
    /\ dbFailures = 0
    /\ callbacksAccepted = 0
    /\ overlaps = 0
    /\ jump = JumpUnchecked
    /\ MemoryInit
    /\ now = IntakeClock
    /\ sync = SyncIdle
    /\ exec = ExecIdle
    /\ cacheResult = NoCacheResult
    /\ overnight_trades = [t \in {} |-> 0]
    /\ activeTrades = [t \in {} |-> 0]
    /\ overnightLog = NoScan
    /\ solver = SolverIdle
    /\ intake = IntakeIdle
    /\ writers = WritersIdle
    /\ currentPath = <<"Start">>
    /\ firstCached = [s \in {} |-> 0]

intakeUnchanged ==
    <<sessions, session_steps, trade_signals, monitor, callback,
      appliedOutcomes, nodeJumpRejected, dbFailures, callbacksAccepted,
      overlaps, jump, memoryVars, now, sync, exec, cacheResult,
      overnight_trades, activeTrades, overnightLog, solver, writers, currentPath, firstCached>>

\* the trade_signals row of a signal: INSERT ... ON CONFLICT (trade_id) DO
\* UPDATE writes the columns from the signal it is given
TradeSignalRow(signal) ==
    [action |-> signal["action"], timeframe |-> signal["timeframe"]]

\* POST /api/webhook/trade-signal: the body is validated by the signal
\* processor; a rejected signal is answered with 400 before anything else
\* runs; an accepted signal goes to the route's own processTradeSignal,
\* which finds or creates the session, stores the signal as it came, and the
\* order is executed.  (The failures of the database and of the execution
\* are the subject of SpecSignal.)
POST(signalData) ==
    /\ intake.requests < MaxRequests
    /\ \E validationResult \in
             {validateTradeSignal(signalData, intake.processedSignals, now)} :
          intake' =
            IF ~validationResult.isValid
            THEN [intake EXCEPT
                    !.requests = @ + 1,
                    !.processedSignals = validationResult.processedSignals,
                    !.signal = signalData,
                    !.validation = validationResult,
                    !.status = 400]
            ELSE [intake EXCEPT
                    !.requests = @ + 1,
                    !.processedSignals = validationResult.processedSignals,
                    !.sessions = @ \cup {signalData["id"]},
                    !.trade_signals =
                        Upsert(@, signalData["id"], TradeSignalRow(signalData)),
                    !.orders = @ \cup {signalData["id"]},
                    !.signal = signalData,
                    !.validation = validationResult,
                    !.status = 200]
    /\ UNCHANGED intakeUnchanged

\* SignalProcessor.processTradeSignal: validate, normalize, find or create
\* the session, store the normalized signal; no order is sent here
processTradeSignal(signal) ==
    /\ intake.requests < MaxRequests
    /\ \E validation \in
             {validateTradeSignal(signal, intake.processedSignals, now)},
          normalizedSignal \in {normalizeSignal(signal)} :
          intake' =
            IF ~validation.isValid
            THEN [intake EXCEPT
                    !.requests = @ + 1,
                    !.processedSignals = validation.processedSignals,
                    !.signal = signal,
                    !.validation = validation,
                    !.status = 0]
            ELSE [intake EXCEPT
                    !.requests = @ + 1,
                    !.processedSignals = validation.processedSignals,
                    !.sessions = @ \cup {normalizedSignal["id"]},
                    !.trade_signals =
                        Upsert(@, normalizedSignal["id"],
                               TradeSignalRow(normalizedSignal)),
                    !.signal = signal,
                    !.validation = validation,
                    !.status = 0]
    /\ UNCHANGED intakeUnchanged

NextIntake ==
    \/ \E signalData \in Signals : POST(signalData)
    \/ \E signal \in Signals : processTradeSignal(signal)

SpecIntake ==
    InitIntake /\ [][NextIntake]_vars

\* ------------------------------------------------------------------------
\* The dashboard's session requests: POST /api/sessions (saveSession) and
\* DELETE and PATCH /api/sessions/[sessionId].  A sessions row carries its
\* notes and its name here; a step row carries its step number.
\* ------------------------------------------------------------------------

\* the paths a request body carries: none, one step, two steps
PathValues ==
    {<<>>,
     <<[node |-> "Start", action |-> "win"]>>,
     <<[node |-> "Start", action |-> "win"], [node |-> "1-0", action |-> "loss"]>>}

\* the bodies of POST /api/sessions
SessionDatas ==
    [sessionId : SessionIds, currentNode : {"Start", "WIN"},
     finalTotal : {0, 100}, isCompleted : BOOLEAN,
     sessionNotes : {""}, sessionName : {""}, pathValues : PathValues]

\* the session_steps row of the i-th step of a saved path
SavedStep(pathValues, i) ==
    [step_number |-> i, node_name |-> pathValues[i].node,
     action |-> pathValues[i].action, step_type |-> "DECISION"]

InitDashboard ==
    /\ sessions = [s \in {} |-> 0]
    /\ session_steps = [s \in SessionIds |-> EmptyBag]
    /\ trade_signals = [t \in {} |-> 0]
    /\ monitor = [t \in TradeIds |-> MonitorIdle]
    /\ callback = [c \in CallbackSlots |-> CallbackIdle]
    /\ appliedOutcomes = [s \in SessionIds |-> <<>>]
    /\ nodeJumpRejected = [s \in SessionIds |-> FALSE]
    /\ dbFailures = 0
    /\ callbacksAccepted = 0
    /\ overlaps = 0
    /\ jump = JumpUnchecked
    /\ MemoryInit
    /\ SideInit

dashboardUnchanged ==
    <<trade_signals, monitor, callback, appliedOutcomes, nodeJumpRejected,
      dbFailures, callbacksAccepted, overlaps, jump, memoryVars, sideVars>>

\* saveSession: the upsert of the sessions row with the values of the body,
\* the DELETE of the session's steps, then one INSERT for each step of the
\* body's path.  upsertOk: the upsert ran; deleteOk: the DELETE ran;
\* inserted: how many INSERTs ran before one threw (all of them when none did)
saveSession(sessionData, upsertOk, deleteOk, inserted) ==
    LET s == sessionData.sessionId
        row == [current_node |-> sessionData.currentNode,
                final_total |-> sessionData.finalTotal,
                is_completed |-> sessionData.isCompleted,
                session_notes |-> sessionData.sessionNotes,
                session_name |-> sessionData.sessionName]
    IN /\ inserted \in 0..Len(sessionData.pathValues)
       /\ ~upsertOk => ~deleteOk
       /\ ~deleteOk => inserted = 0
       /\ sessions' = IF upsertOk THEN Upsert(sessions, s, row) ELSE sessions
       /\ session_steps' =
            IF deleteOk
            THEN [session_steps EXCEPT ![s] =
                    SetToBag({SavedStep(sessionData.pathValues, i) : i \in 1..inserted})]
            ELSE session_steps
       /\ UNCHANGED dashboardUnchanged

\* deleteSession: DELETE FROM sessions, the steps going with the row
\* (ON DELETE CASCADE)
deleteSession(sessionId, dbOk) ==
    /\ sessionId \in DOMAIN sessions
    /\ sessions' = IF dbOk
                   THEN [s \in DOMAIN sessions \ {sessionId} |-> sessions[s]]
                   ELSE sessions
    /\ session_steps' = IF dbOk
                        THEN [session_steps EXCEPT ![sessionId] = EmptyBag]
                        ELSE session_steps
    /\ UNCHANGED dashboardUnchanged

\* updateSessionNotes: UPDATE sessions SET session_notes
updateSessionNotes(sessionId, notes, dbOk) ==
    /\ sessions' = IF dbOk /\ sessionId \in DOMAIN sessions
                   THEN [sessions EXCEPT ![sessionId].session_notes = notes]
                   ELSE sessions
    /\ UNCHANGED <<session_steps, dashboardUnchanged>>

\* a rename that also puts the session back at Start
updateSessionNameResettingNode(sessionId, name, dbOk) ==
    /\ sessions' = IF dbOk /\ sessionId \in DOMAIN sessions
                   THEN [sessions EXCEPT ![sessionId].session_name = name,
                                         ![sessionId].current_node = "Start"]
                   ELSE sessions
    /\ UNCHANGED <<session_steps, dashboardUnchanged>>

\* updateSessionName: UPDATE sessions SET session_name
updateSessionName(sessionId, name, dbOk) ==
    /\ sessions' = IF dbOk /\ sessionId \in DOMAIN sessions
                   THEN [sessions EXCEPT ![sessionId].session_name = name]
                   ELSE sessions
    /\ UNCHANGED <<session_steps, dashboardUnchanged>>

NextDashboard ==
    \/ \E sessionData \in SessionDatas, upsertOk \in BOOLEAN,
          deleteOk \in BOOLEAN, inserted \in 0..2 :
         saveSession(sessionData, upsertOk, deleteOk, inserted)
    \/ \E sessionId \in SessionIds, dbOk \in BOOLEAN :
         deleteSession(sessionId, dbOk)
    \/ \E sessionId \in SessionIds, notes \in {"", "checked"}, dbOk \in BOOLEAN :
         updateSessionNotes(sessionId, notes, dbOk)
    \/ \E sessionId \in SessionIds, name \in {"", "monday"}, dbOk \in BOOLEAN :
         updateSessionName(sessionId, name, dbOk)

SpecDashboard ==
    InitDashboard /\ [][NextDashboard]_vars

\* ------------------------------------------------------------------------
\* The writers of session_steps next to the dashboard's save: the two
\* recorders of the platform service (a SELECT of the next step number, then
\* an INSERT carrying it), the rollback of the exception handler (one INSERT
\* that computes the number itself), saveSession and deleteSession.
\* ------------------------------------------------------------------------

\* the bodies saved here: session 1, not completed, at Start
StepSessionDatas ==
    {d \in SessionDatas :
        d.sessionId = 1 /\ d.currentNode = "Start" /\ d.finalTotal = 0 /\ ~d.isCompleted}

stepsUnchanged ==
    <<trade_signals, monitor, callback, appliedOutcomes, nodeJumpRejected,
      dbFailures, callbacksAccepted, overlaps, jump, memoryVars,
      now, sync, exec, cacheResult, overnight_trades, activeTrades,
      overnightLog, solver, intake, currentPath, firstCached>>

\* the first slot without a call in it
FreeWriter(w) ==
    /\ writers[w].pc = "idle"
    /\ \A v \in 1..(w - 1) : writers[v].pc # "idle"

\* SELECT COALESCE(MAX(step_number), 0) + 1 FROM session_steps WHERE session_id
NextStepNumber(sessionId) ==
    MaxStepNumber(BagToSet(session_steps[sessionId])) + 1

\* recordExecutionStep up to its INSERT: the SELECT of the next step number
recordExecutionStep(w, sessionId) ==
    /\ FreeWriter(w)
    /\ NextStepNumber(sessionId) <= MaxSteps
    /\ writers' = [writers EXCEPT ![w] =
                     [pc |-> "insert", session_id |-> sessionId,
                      step_type |-> "EXECUTE",
                      step_number |-> NextStepNumber(sessionId)]]
    /\ UNCHANGED <<sessions, session_steps, stepsUnchanged>>

\* recordResultStep up to its INSERT: the SELECT of the next step number
recordResultStep(w, sessionId) ==
    /\ FreeWriter(w)
    /\ NextStepNumber(sessionId) <= MaxSteps
    /\ writers' = [writers EXCEPT ![w] =
                     [pc |-> "insert", session_id |-> sessionId,
                      step_type |-> "RESULT",
                      step_number |-> NextStepNumber(sessionId)]]
    /\ UNCHANGED <<sessions, session_steps, stepsUnchanged>>

\* the row a recorder inserts: node_name and action of an execution that
\* succeeded, of a result that won
RecordedStep(writer) ==
    [step_number |-> writer.step_number,
     node_name |-> IF writer.step_type = "EXECUTE" THEN "EXECUTE" ELSE "WIN",
     action |-> IF writer.step_type = "EXECUTE" THEN "execute" ELSE "win",
     step_type |-> writer.step_type]

\* the INSERT of either recorder, with the number its SELECT returned; an
\* error (dbOk false, or no session row for the foreign key) is logged
recordStepInsert(w, dbOk) ==
    /\ writers[w].pc = "insert"
    /\ session_steps' = IF dbOk
                        THEN InsertStep(writers[w].session_id, RecordedStep(writers[w]))
                        ELSE session_steps
    /\ writers' = [writers EXCEPT ![w] = WritersIdle[w]]
    /\ UNCHANGED <<sessions, stepsUnchanged>>

\* ExceptionHandler.executeRollback: UPDATE sessions SET current_node, then
\* one INSERT whose subselect computes MAX(step_number) + 1
executeRollback(sessionId, rollbackToNode, updateOk, insertOk) ==
    /\ sessionId \in DOMAIN sessions
    /\ NextStepNumber(sessionId) <= MaxSteps
    /\ ~updateOk => ~insertOk
    /\ sessions' = IF updateOk
                   THEN [sessions EXCEPT ![sessionId].current_node = rollbackToNode]
                   ELSE sessions
    /\ session_steps' =
         IF insertOk
         THEN InsertStep(sessionId,
                  [step_number |-> NextStepNumber(sessionId),
                   node_name |-> rollbackToNode, action |-> "ROLLBACK",
                   step_type |-> "DECISION"])
         ELSE session_steps
    /\ UNCHANGED <<writers, stepsUnchanged>>

NextSteps ==
    \/ \E sessionData \in StepSessionDatas, upsertOk \in BOOLEAN,
          deleteOk \in BOOLEAN, inserted \in 0..2 :
         saveSession(sessionData, upsertOk, deleteOk, inserted)
    \/ \E w \in 1..MaxWriters : recordExecutionStep(w, 1)
    \/ \E w \in 1..MaxWriters : recordResultStep(w, 1)
    \/ \E w \in 1..MaxWriters, dbOk \in BOOLEAN : recordStepInsert(w, dbOk)
    \/ \E updateOk \in BOOLEAN, insertOk \in BOOLEAN :
         executeRollback(1, "Start", updateOk, insertOk)
    \/ \E dbOk \in BOOLEAN : deleteSession(1, dbOk)

SpecSteps ==
    InitDashboard /\ [][NextSteps]_vars

\* ------------------------------------------------------------------------
\* PATCH /api/sessions/[sessionId] on a stored session
\* ------------------------------------------------------------------------

\* the sessions rows the saves leave, with a total of 100
StoredSessions ==
    [current_node : {"Start", "WIN"}, final_total : {100},
     is_completed : BOOLEAN, session_notes : {""}, session_name : {""}]

\* the bodies of PATCH: a field that is absent is undefined
PatchBodies ==
    UNION {[fields -> {"", "checked"}] : fields \in SUBSET {"notes", "sessionName"}}

\* the database after some saves: any rows, each with the steps of a saved path
InitPatch ==
    /\ \E ids \in SUBSET SessionIds :
         /\ sessions \in [ids -> StoredSessions]
         /\ \E paths \in [SessionIds -> PathValues] :
              session_steps =
                [s \in SessionIds |->
                   IF s \in ids
                   THEN SetToBag({SavedStep(paths[s], i) : i \in 1..Len(paths[s])})
                   ELSE EmptyBag]
    /\ trade_signals = [t \in {} |-> 0]
    /\ monitor = [t \in TradeIds |-> MonitorIdle]
    /\ callback = [c \in CallbackSlots |-> CallbackIdle]
    /\ appliedOutcomes = [s \in SessionIds |-> <<>>]
    /\ nodeJumpRejected = [s \in SessionIds |-> FALSE]
    /\ dbFailures = 0
    /\ callbacksAccepted = 0
    /\ overlaps = 0
    /\ jump = JumpUnchecked
    /\ MemoryInit
    /\ SideInit

\* PATCH: notes when the body has them, else the name when the body has one,
\* else status 400 and nothing written
PATCH(sessionId, body, dbOk) ==
    IF "notes" \in DOMAIN body
    THEN updateSessionNotes(sessionId, body.notes, dbOk)
    ELSE IF "sessionName" \in DOMAIN body
         THEN updateSessionName(sessionId, body.sessionName, dbOk)
         ELSE UNCHANGED vars

NextPatch ==
    \E sessionId \in SessionIds, body \in PatchBodies, dbOk \in BOOLEAN :
        PATCH(sessionId, body, dbOk)

SpecPatch ==
    InitPatch /\ [][NextPatch]_vars

\* ------------------------------------------------------------------------
\* The dashboard's game: startNewGame, then confirmMove along the edges of
\* decisionTree
\* ------------------------------------------------------------------------

\* a game at its first node: a new game at Start, or one resumed at a node
InitGame ==
    /\ sessions = [s \in {} |-> 0]
    /\ session_steps = [s \in SessionIds |-> EmptyBag]
    /\ trade_signals = [t \in {} |-> 0]
    /\ monitor = [t \in TradeIds |-> MonitorIdle]
    /\ callback = [c \in CallbackSlots |-> CallbackIdle]
    /\ appliedOutcomes = [s \in SessionIds |-> <<>>]
    /\ nodeJumpRejected = [s \in SessionIds |-> FALSE]
    /\ dbFailures = 0
    /\ callbacksAccepted = 0
    /\ overlaps = 0
    /\ jump = JumpUnchecked
    /\ MemoryInit
    /\ now = 0
    /\ sync = SyncIdle
    /\ exec = ExecIdle
    /\ cacheResult = NoCacheResult
    /\ overnight_trades = [t \in {} |-> 0]
    /\ activeTrades = [t \in {} |-> 0]
    /\ overnightLog = NoScan
    /\ solver = SolverIdle
    /\ intake = IntakeIdle
    /\ writers = WritersIdle
    /\ currentPath \in {<<n>> : n \in NodeIds}
    /\ firstCached = [s \in {} |-> 0]

\* a choice that leads back to the node it was made at
nextNodeOfStaying(node, choice) ==
    IF node = "4-5" /\ choice = "loss" THEN "4-5"
    ELSE IF choice = "win" THEN decisionTree[node].win ELSE decisionTree[node].loss

\* the node a choice leads to: node.win or node.loss
nextNodeOf(node, choice) ==
    IF choice = "win" THEN decisionTree[node].win ELSE decisionTree[node].loss

\* confirmMove: nothing without a next node, else the next node joins the path
confirmMove(pendingChoice) ==
    /\ nextNodeOf(currentPath[Len(currentPath)], pendingChoice) # undefined
    /\ Len(currentPath) <= MaxMoves
    /\ currentPath' = Append(currentPath, nextNodeOf(currentPath[Len(currentPath)], pendingChoice))
    /\ UNCHANGED <<sessions, session_steps, trade_signals, monitor, callback,
                   appliedOutcomes, nodeJumpRejected, dbFailures, callbacksAccepted,
                   overlaps, jump, memoryVars, now, sync, exec, cacheResult,
                   overnight_trades, activeTrades, overnightLog, solver, intake, writers,
                   firstCached>>

NextGame ==
    \/ confirmMove("win")
    \/ confirmMove("loss")

SpecGame ==
    InitGame /\ [][NextGame]_vars

\* ------------------------------------------------------------------------
\* The cache next to the trade results: a session whose data is cached goes
\* on, its results move it along the tree, and the cache is synchronized
\* later
\* ------------------------------------------------------------------------

\* the nodes at which a result is delivered here
ResultNodes ==
    {"Start"}

\* the trade-result callback for session s, its statements having run: the
\* next node is node.win or node.loss, the total moves by the profit or loss
TradeResult(s, result) ==
    /\ s \in DOMAIN sessions
    /\ ~sessions[s].is_completed
    /\ sessions[s].current_node \in ResultNodes
    /\ LET node == decisionTree[sessions[s].current_node]
           nextNode == IF result = "win" THEN node.win ELSE node.loss
       IN sessions' =
            [sessions EXCEPT ![s].current_node = nextNode,
                             ![s].final_total = @ + ProfitLoss(1, result),
                             ![s].is_completed = FALSE]
    /\ UNCHANGED <<dbFailures, cachedSessions, now, sync, cacheResult, cacheUnchanged,
                   firstCached>>

\* no time passes here: no entry is old enough to be discarded
NextReconcile ==
    \/ \E s \in SessionIds : DatabaseFailure(s)
    \/ \E s \in SessionIds, result \in {"win", "loss"} : TradeResult(s, result)
    \/ SynchronizeStart
    \/ \E s \in SessionIds, dbOk \in BOOLEAN : SynchronizeEntry(s, dbOk)
    \/ SynchronizeEnd

SpecReconcile ==
    InitCache /\ [][NextReconcile]_vars

\* ------------------------------------------------------------------------
\* Vocabulary of the properties
\* ------------------------------------------------------------------------

Terminal ==
    {n \in NodeIds : decisionTree[n].final}

\* no handler is between two statements on session s
Quiescent(s) ==
    /\ \A t \in RunningMonitors : monitor[t].session_id # s
    /\ \A c \in RunningCallbacks : callback[c].session_id # s

\* the order was executed: the webhook started its result monitor
Executed(t) ==
    monitor[t].pc # "none"

RECURSIVE SumRows(_, _)
SumRows(bag, rows) ==
    IF rows = {} THEN 0
    ELSE LET r == CHOOSE x \in rows : TRUE
         IN CopiesIn(r, bag) * (r.stake_result + r.trade_result_actual)
            + SumRows(bag, rows \ {r})

\* the sum of the signed results recorded in the session's steps
RecordedResults(s) ==
    SumRows(session_steps[s], BagToSet(session_steps[s]))

RECURSIVE SumApplied(_)
SumApplied(outcomes) ==
    IF outcomes = <<>> THEN 0
    ELSE Head(outcomes).profit_loss + SumApplied(Tail(outcomes))

\* how many outcomes of trade t have been written to session rows
TimesApplied(t) ==
    Cardinality({<<s, i>> \in SessionIds \X (1..(MaxCallbacks + MaxTrades)) :
                    /\ i <= Len(appliedOutcomes[s])
                    /\ appliedOutcomes[s][i].trade_id = t})

HasRollbackRecord(s) ==
    \E row \in BagToSet(session_steps[s]) : row.action = "ROLLBACK"

\* this step is a trade-signal request for trade id t (a duplicate that is
\* rejected twice in a row changes nothing and is no step)
SignalDelivered(t) ==
    /\ webhookResponse'.trade_id = t
    /\ restarts' = restarts
    /\ \/ webhookResponse' # webhookResponse
       \/ processedSignals' # processedSignals

\* a signal with trade id t has been processed and stored
SignalStored(t) ==
    t \in DOMAIN trade_signals

\* the k-th error thrown to executeTrade was followed by another attempt
Retried(k) ==
    \/ k < exec.attempt
    \/ k = exec.attempt /\ exec.pc = "wait"

\* the lower-cased message contains one of the substrings
ContainsOneOf(message, substrings) ==
    \E sub \in substrings :
        StringIncludes(toLowerCase(ErrorChars[message]), sub)

\* the step recorded for the execution that has just returned
RecordedExecutionSteps ==
    {row \in StepsOfType(exec.session_id, "EXECUTE") :
        row.step_number = exec.step_number}

\* how many steps of session s record a FAILED execution
FailedExecutionSteps(steps, s) ==
    CopiesIn([node_name |-> "EXECUTE", action |-> "failed",
              step_type |-> "EXECUTE", stake_result |-> null,
              trade_result_actual |-> null], steps[s])

\* this step is an UPDATE of session s after a trade result that throws:
\* updateSession of the trade-result callback, or the UPDATE of
\* updateDecisionTreeNode / executeRollback in the result monitor
SessionWriteFails(s) ==
    /\ dbFailures' = dbFailures + 1
    /\ \/ \E c \in CallbackSlots :
             /\ callback[c].pc = "updateSession"
             /\ callback[c].session_id = s
             /\ callback'[c].pc # "updateSession"
       \/ \E t \in TradeIds :
             /\ monitor[t].pc = "writeSession"
             /\ monitor[t].session_id = s
             /\ monitor'[t].pc # "writeSession"

\* this step is a call of handleDatabaseFailure for session s
DatabaseFailureHandled(s) ==
    /\ dbFailures' = dbFailures + 1
    /\ cacheResult'.sessionId = s
    /\ sync' = sync
    /\ sessions' = sessions

\* this step is the turn of the synchronization loop for the entry of s
EntryVisited(s) ==
    /\ sync.pc = "running"
    /\ s \notin sync.visited
    /\ s \in sync'.visited

\* ------------------------------------------------------------------------
\* Properties
\* ------------------------------------------------------------------------

\* C1: whenever no handler is in the middle of a session, the session's
\* final_total equals the sum of the signed results recorded in its
\* session_steps, also after a result whose node update was rolled back.
C1_TotalEqualsRecordedResults ==
    \A s \in DOMAIN sessions :
        Quiescent(s) => sessions[s].final_total = RecordedResults(s)

\* C2: for one executed trade at most one outcome is ever written to a
\* session, whether it comes from the monitor, a callback or a re-delivered
\* callback.
C2_TradeAppliedAtMostOnce ==
    \A t \in TradeIds : Executed(t) => TimesApplied(t) <= 1

\* C3: a step that applies an outcome to a session whose current_node is a
\* terminal node (WIN or LOST) changes neither current_node nor final_total.
C3_TerminalSessionUntouched ==
    [][\A s \in DOMAIN sessions :
          (/\ sessions[s].current_node \in Terminal
           /\ appliedOutcomes'[s] # appliedOutcomes[s])
          => /\ sessions'[s].current_node = sessions[s].current_node
             /\ sessions'[s].final_total = sessions[s].final_total]_vars

\* C4: outcomes of one session are applied one after the other: once its
\* handlers have finished, final_total holds the profit_loss of every
\* outcome that was written to the session, none is overwritten.
C4_EveryAppliedOutcomeCounted ==
    \A s \in DOMAIN sessions :
        Quiescent(s) => sessions[s].final_total = SumApplied(appliedOutcomes[s])

\* C5: every step that applies an outcome to a session moves current_node
\* along a win or loss edge of the node the session held just before.
C5_AppliedOutcomeFollowsEdge ==
    [][\A s \in DOMAIN sessions :
          Len(appliedOutcomes'[s]) > Len(appliedOutcomes[s]) =>
              IsEdge(sessions[s].current_node, sessions'[s].current_node)]_vars

\* C6: after an outcome has been applied, a session whose current_node is
\* terminal is marked completed.
C6_TerminalIsCompleted ==
    \A s \in DOMAIN sessions :
        (/\ Quiescent(s)
         /\ appliedOutcomes[s] # <<>>
         /\ sessions[s].current_node \in Terminal)
        => sessions[s].is_completed

\* C7: each node-jump validator accepts a pair (currentNode, proposedNode)
\* exactly when proposedNode is the win or loss edge of currentNode in
\* decisionTree.
C7_ValidationIsEdgeTable ==
    /\ jump.callbackIsValid # "unchecked" =>
         (jump.callbackIsValid = "valid")
             = IsEdge(jump.currentNode, jump.proposedNode)
    /\ jump.handlerIsValid # "unchecked" =>
         (jump.handlerIsValid = "valid")
             = IsEdge(jump.currentNode, jump.proposedNode)

\* C8: the step by which a monitor answers a rejected node jump never moves
\* the session to a node other than the one the monitor read before it
\* proposed the jump: current_node is left alone or restored to that node.
C8_RejectedJumpKeepsNode ==
    [][\A t \in TradeIds :
          LET s == monitor[t].session_id
          IN (/\ monitor[t].pc = "writeSession"
              /\ ~monitor[t].isValid
              /\ monitor'[t] # monitor[t]
              /\ sessions'[s].current_node # sessions[s].current_node)
             => sessions'[s].current_node = monitor[t].currentNode]_vars

\* C9: once a node-jump validation failure has been handled for a session,
\* its session_steps hold a ROLLBACK record.
C9_RejectionRecordsRollback ==
    \A s \in SessionIds : nodeJumpRejected[s] => HasRollbackRecord(s)

\* C10: after a node-jump validation failure on a session no step applies
\* an outcome to it: outcome processing changes neither current_node nor
\* final_total (the code has no operation that clears the block).
C10_RejectedSessionBlocked ==
    [][\A s \in DOMAIN sessions :
          (/\ nodeJumpRejected[s]
           /\ appliedOutcomes'[s] # appliedOutcomes[s])
          => /\ sessions'[s].current_node = sessions[s].current_node
             /\ sessions'[s].final_total = sessions[s].final_total]_vars

\* C11: a trade-signal request whose trade id has already been processed
\* and stored is a no-op: it creates no session, appends no step, changes no
\* stored signal and starts no order monitoring.
C11_RepeatedSignalIsNoOp ==
    [][\A t \in TradeIds :
          (SignalStored(t) /\ SignalDelivered(t))
          => UNCHANGED <<sessions, session_steps, trade_signals, monitor>>]_vars

\* C12: a trade-signal request whose trade id has already been processed and
\* stored is answered with the validation error, whenever it arrives.
C12_RepeatedSignalRejected ==
    [][\A t \in TradeIds :
          (SignalStored(t) /\ SignalDelivered(t))
          => webhookResponse'.result = "validation failed"]_vars

C14_RetriesOnlyListedSubstrings ==
    \A k \in 1..Len(exec.thrown) :
        Retried(k) =>
            ContainsOneOf(exec.thrown[k],
                {<<"n", "e", "t", "w", "o", "r", "k">>,
                 <<"t", "i", "m", "e", "o", "u", "t">>,
                 <<"c", "o", "n", "n", "e", "c", "t", "i", "o", "n">>,
                 <<"r", "a", "t", "e", " ", "l", "i", "m", "i", "t">>,
                 <<"r", "a", "t", "e", "-", "l", "i", "m", "i", "t">>,
                 <<"s", "e", "r", "v", "e", "r", " ", "e", "r", "r", "o", "r">>,
                 <<"s", "e", "r", "v", "e", "r", "-", "e", "r", "r", "o", "r">>,
                 <<"g", "a", "t", "e", "w", "a", "y">>,
                 <<"u", "n", "a", "v", "a", "i", "l", "a", "b", "l", "e">>})

\* C14 (amended): an attempt's error is followed by another attempt exactly
\* when the attempt is the first or the second and the message, in lower
\* case, contains one of network, timeout, connection, temporary, rate
\* limit, server error, gateway, service unavailable; after any other error
\* no further attempt is made and the execution is FAILED with that error.
C14_RetriesExactlyRetryableErrors ==
    /\ \A k \in 1..Len(exec.thrown) :
          Retried(k) <=>
             /\ k < 3
             /\ ContainsOneOf(exec.thrown[k],
                    {<<"n", "e", "t", "w", "o", "r", "k">>,
                     <<"t", "i", "m", "e", "o", "u", "t">>,
                     <<"c", "o", "n", "n", "e", "c", "t", "i", "o", "n">>,
                     <<"t", "e", "m", "p", "o", "r", "a", "r", "y">>,
                     <<"r", "a", "t", "e", " ", "l", "i", "m", "i", "t">>,
                     <<"s", "e", "r", "v", "e", "r", " ", "e", "r", "r", "o", "r">>,
                     <<"g", "a", "t", "e", "w", "a", "y">>,
                     <<"s", "e", "r", "v", "i", "c", "e", " ", "u", "n", "a",
                       "v", "a", "i", "l", "a", "b", "l", "e">>})
    /\ (exec.pc = "done" /\ Len(exec.thrown) = exec.attempt) =>
          /\ exec.status = "FAILED"
          /\ exec.error = exec.thrown[Len(exec.thrown)]

C14_RetriedThenFailedAtOnce ==
    /\ exec.pc = "done"
    /\ exec.status = "FAILED"
    /\ exec.thrown = <<"Temporary failure", "Market unavailable">>

\* C16: when an order is partially filled (the filled notional differs from
\* the requested one by more than 1%), the stake_value of the step recorded
\* for that execution equals the filled amount.
C16_PartialFillStakeIsFilledAmount ==
    (/\ exec.pc = "done"
     /\ exec.partialFill
     /\ exec.step_number # 0)
    => \A row \in RecordedExecutionSteps :
           row.stake_value = exec.filledAmount

C17_FailedOutcomeWriteIsCached ==
    [][\A s \in SessionIds :
          SessionWriteFails(s) => s \in DOMAIN cachedSessions']_vars

C19_PassUpsertsOrDiscardsEveryEntry ==
    [][\A s \in SessionIds :
          EntryVisited(s)
          => IF sync.currentTime - cachedSessions[s].timestamp > 3600000
             THEN /\ s \in sync'.expiredSessions
                  /\ sessions' = sessions
             ELSE IF dbFailures' = dbFailures
             THEN /\ s \in DOMAIN sessions'
                  /\ sessions'[s].current_node = cachedSessions[s].currentNode
                  /\ s \notin DOMAIN cachedSessions'
             ELSE /\ s \in DOMAIN cachedSessions'
                  /\ sessions' = sessions]_vars

\* C20: the status of a registered trade, in activeTrades and in the
\* overnight_trades table, changes only from active to closed or to
\* rolled_back; a trade that is closed or rolled back does not become
\* active again, also when registerTrade is called again for its id.
C20_StatusOnlyLeavesActive ==
    [][\A tradeId \in OvernightTradeIds :
          /\ (/\ tradeId \in DOMAIN activeTrades
              /\ tradeId \in DOMAIN activeTrades'
              /\ activeTrades'[tradeId].status # activeTrades[tradeId].status)
                => /\ activeTrades[tradeId].status = "active"
                   /\ activeTrades'[tradeId].status
                         \in {"closed", "rolled_back"}
          /\ (/\ tradeId \in DOMAIN overnight_trades
              /\ tradeId \in DOMAIN overnight_trades'
              /\ overnight_trades'[tradeId].status
                    # overnight_trades[tradeId].status)
                => /\ overnight_trades[tradeId].status = "active"
                   /\ overnight_trades'[tradeId].status
                         \in {"closed", "rolled_back"}]_vars

\* C21: a checkOvernightTrades scan that runs when a registration is active,
\* overnight-close-enabled and past the cutoff (open for more than 16 hours)
\* force-closes it: right after the scan the registration is not active any
\* more (the rollback of the owning session is part of the same closure).
C21_ScanPastCutoffClosesEveryDueTrade ==
    [][overnightLog'.scans # overnightLog.scans
          => \A tradeId \in DOMAIN activeTrades :
                (/\ activeTrades[tradeId].status = "active"
                 /\ activeTrades[tradeId].overnightCloseEnabled
                 /\ now - activeTrades[tradeId].entry_time > 16 * 3600000)
                   => /\ tradeId \in DOMAIN activeTrades'
                      /\ activeTrades'[tradeId].status # "active"]_vars

\* C22: the stake that adjustStakeForNetProfit returns is never negative and
\* never above maxRiskAmount, whatever the inputs.
C22_StakeBetweenZeroAndMaxRiskCap ==
    solver.pc = "returned"
       => /\ solver.result.adjustedStake >= 0
          /\ solver.result.adjustedStake <= solver.input.maxRiskAmount

\* C23: for valid inputs with entryPrice different from targetPrice, the net
\* profit that the returned stake achieves (stake * price move ratio - total
\* costs) is within the tolerance of $0.01 of targetNetProfit, or else the
\* returned stake is exactly maxRiskAmount.
C23_NetProfitWithinToleranceOrStakeIsCap ==
    (/\ solver.pc = "returned"
     /\ solver.input.entryPrice # solver.input.targetPrice
     /\ solver.input.targetNetProfit > 0)
       => LET priceDifference ==
                 IF solver.input.targetPrice >= solver.input.entryPrice
                 THEN solver.input.targetPrice - solver.input.entryPrice
                 ELSE solver.input.entryPrice - solver.input.targetPrice
              achieved ==
                 Minus(Ratio(solver.result.adjustedStake, priceDifference,
                             solver.input.entryPrice),
                       solver.result.totalCosts)
              difference ==
                 MathAbs(Minus(achieved, solver.input.targetNetProfit))
          IN  \/ ~IsNotANumber(difference) /\ difference <= 10
              \/ solver.result.adjustedStake = solver.input.maxRiskAmount

C25_EqualPricesFailFast ==
    (solver.pc # "idle" /\ solver.input.entryPrice = solver.input.targetPrice)
       => /\ solver.pc \in {"loop", "thrown"}
          /\ solver.costCalculations = 0

Answered ==
    intake'.requests = intake.requests + 1

AllRequiredFields(signal) ==
    \A i \in 1..Len(requiredFields) : HasValue(signal, requiredFields[i])

\* the prices of a buy (or long) or of a sell (or short) point the wrong way
WrongDirection(action, entry, target, stop) ==
    \/ /\ action \in {validActions[1], validActions[3]}
       /\ target <= entry \/ stop >= entry
    \/ /\ action \in {validActions[2], validActions[4]}
       /\ target >= entry \/ stop <= entry

OlderThanADay(signal, clock) ==
    /\ ~IsNotANumber(DateParse(signal["time"]))
    /\ clock - DateParse(signal["time"]) > MAX_SIGNAL_AGE_HOURS * msPerHour

\* the hard failures of the claim, a price being numeric when ToNumber reads
\* a number from it
HardFailure(signal, ToNumber(_), clock) ==
    \/ ~AllRequiredFields(signal)
    \/ /\ AllRequiredFields(signal)
       /\ \/ ~Includes(validActions, toLowerCase(signal["action"]))
          \/ \E f \in {"entry", "target", "stop"} : IsNotANumber(ToNumber(signal[f]))
          \/ /\ \A f \in {"entry", "target", "stop"} : ~IsNotANumber(ToNumber(signal[f]))
             /\ WrongDirection(toLowerCase(signal["action"]), ToNumber(signal["entry"]),
                               ToNumber(signal["target"]), ToNumber(signal["stop"]))
          \/ OlderThanADay(signal, clock)

\* the request that was just answered left the sessions, the stored signals
\* and the orders as they were
NothingCreated ==
    /\ intake'.sessions = intake.sessions
    /\ intake'.trade_signals = intake.trade_signals
    /\ intake'.orders = intake.orders

NumericMinutes(timeframe) ==
    timeframe # <<>> /\ \A i \in 1..Len(timeframe) : IsDigit(timeframe[i])

\* the valid signal but for its id, its timeframe, its ratio and its risk
\* percent, which are well-formed
OnlySoftFieldsDiffer(signal) ==
    /\ AllRequiredFields(signal)
    /\ \A f \in {"action", "symbol", "time", "entry", "target", "stop"} :
          signal[f] = ValidSignal[f]
    /\ IsCanonicalTimeframe(signal["timeframe"]) \/ NumericMinutes(signal["timeframe"])
    /\ ~IsNotANumber(parseFloat(signal["rr"]))
    /\ ~IsNotANumber(parseFloat(signal["risk"]))

\* the warnings the claim expects: one for each soft issue, the bounds of the
\* ratio and of the risk percent being given in hundredths
ExpectedWarnings(signal, rrTooLow(_), riskTooLow(_), Normalizable(_)) ==
         (IF Normalizable(signal["timeframe"])
          THEN {"Timeframe normalized"} ELSE {})
    \cup (IF rrTooLow(parseFloat(signal["rr"]))
          THEN {"Low risk-reward ratio"} ELSE {})
    \cup (IF parseFloat(signal["rr"]) > 10 * Hundredths
          THEN {"Very high risk-reward ratio"} ELSE {})
    \cup (IF riskTooLow(parseFloat(signal["risk"]))
             \/ parseFloat(signal["risk"]) > 5 * Hundredths
          THEN {"Risk percentage is outside recommended range"} ELSE {})

BelowOne(rr) ==
    rr < 1 * Hundredths

BelowATenth(risk) ==
    risk < Hundredths \div 10

PositiveBelowOne(rr) ==
    rr > 0 /\ rr < 1 * Hundredths

NotPositive(risk) ==
    risk <= 0

InTimeframeMap(timeframe) ==
    timeframe \in DOMAIN timeframeMap

C29_StoredSignalsAreNormalized ==
    \A id \in DOMAIN intake.trade_signals :
        /\ IsCanonicalTimeframe(intake.trade_signals[id].timeframe)
        /\ intake.trade_signals[id].action \in {validActions[1], validActions[2]}

\* ------------------------------------------------------------------------
\* Terminal sessions
\* ------------------------------------------------------------------------

\* C30: once a session's current node is terminal, a step that does not
\* delete the session leaves its current node, its running total, its
\* completed flag and its steps as they were
C30_TerminalSessionsAreImmutable ==
    [][\A s \in DOMAIN sessions :
          sessions[s].current_node \in Terminal /\ s \in DOMAIN sessions' =>
             /\ sessions'[s].current_node = sessions[s].current_node
             /\ sessions'[s].final_total = sessions[s].final_total
             /\ sessions'[s].is_completed = sessions[s].is_completed
             /\ session_steps'[s] = session_steps[s]]_vars

\* ------------------------------------------------------------------------
\* Step history, administrative commands
\* ------------------------------------------------------------------------

\* the execution, result and rollback records among a session's steps
ExecutionRecords(steps) ==
    {row \in BagToSet(steps) :
        row.step_type \in {"EXECUTE", "RESULT"} \/ row.action = "ROLLBACK"}

\* C31: the step history is append-only: while the session is not deleted,
\* no step removes an execution, result or rollback record that was recorded
C31_RecordedStepsAreNeverRemoved ==
    [][\A s \in DOMAIN sessions \cap DOMAIN sessions' :
          \A row \in ExecutionRecords(session_steps[s]) :
              CopiesIn(row, session_steps'[s]) >= CopiesIn(row, session_steps[s])]_vars

\* C37: no two steps of a session share a step number, execution, result
\* and rollback records written concurrently included: each such record is
\* there once, and two of them differ in their number
C37_StepNumbersAreUnique ==
    \A s \in SessionIds :
        /\ \A row \in ExecutionRecords(session_steps[s]) :
               CopiesIn(row, session_steps[s]) = 1
        /\ \A r1, r2 \in ExecutionRecords(session_steps[s]) :
               r1.step_number = r2.step_number => r1 = r2

\* C32: renaming a session or updating its notes leaves its node, its running
\* total, its completed flag and its steps as they were
C32_RenameAndNotesKeepTheSession ==
    [][/\ DOMAIN sessions' = DOMAIN sessions
       /\ \A s \in DOMAIN sessions :
            /\ sessions'[s].current_node = sessions[s].current_node
            /\ sessions'[s].final_total = sessions[s].final_total
            /\ sessions'[s].is_completed = sessions[s].is_completed
       /\ session_steps' = session_steps]_vars

\* a completed session at WIN with a step, renamed and annotated
C32_RenamedAndAnnotated ==
    \E s \in DOMAIN sessions :
        /\ sessions[s].session_name = "checked"
        /\ sessions[s].session_notes = "checked"
        /\ sessions[s].current_node = "WIN"
        /\ sessions[s].is_completed
        /\ session_steps[s] # EmptyBag

\* C33: the decision graph has the two terminal sinks WIN and LOST, every
\* other node has a win edge and a loss edge to nodes of the graph, no walk
\* comes back to a node it has visited, and a walk from Start has at most
\* ten edges, being at WIN or LOST when it can go no further
C33_GraphEndsWithinTenEdges ==
    /\ {n \in NodeIds : decisionTree[n].win = undefined /\ decisionTree[n].loss = undefined}
         = {"WIN", "LOST"}
    /\ \A n \in NodeIds \ {"WIN", "LOST"} :
          /\ decisionTree[n].win \in NodeIds
          /\ decisionTree[n].loss \in NodeIds
    /\ \A i, j \in 1..Len(currentPath) : currentPath[i] = currentPath[j] => i = j
    /\ currentPath[1] = "Start" => Len(currentPath) - 1 <= 10
    /\ ~ENABLED NextGame => currentPath[Len(currentPath)] \in {"WIN", "LOST"}

\* a game from Start that ends at WIN after ten moves
C33_TenMovesToWin ==
    /\ currentPath[1] = "Start"
    /\ Len(currentPath) = 11
    /\ currentPath[11] = "WIN"

\* ------------------------------------------------------------------------
\* Costs of a zero stake
\* ------------------------------------------------------------------------

\* C34: calculateTradeCosts called with an entry price of 0 or a stake of 0
\* returns total costs of 0
C34_ZeroStakeOrEntryPriceCostsNothing ==
    /\ solver.pc = "compare"
    /\ solver.currentStake = 0 \/ solver.input.entryPrice = 0
    => solver.costResult.totalCosts = 0

\* ------------------------------------------------------------------------
\* Rejected signals and their ids
\* ------------------------------------------------------------------------

DuplicateError ==
    "Signal ID has already been processed"

\* C35: when a signal was rejected for a reason other than duplication, the
\* next signal with the same id that passes every other check is accepted
C35_RejectedSignalLeavesItsIdFree ==
    [][(/\ intake.requests >= 1
        /\ intake'.requests = intake.requests + 1
        /\ ~intake.validation.isValid
        /\ DuplicateError \notin intake.validation.errors
        /\ "id" \in DOMAIN intake.signal
        /\ "id" \in DOMAIN intake'.signal
        /\ intake'.signal["id"] = intake.signal["id"]
        /\ intake'.validation.errors \subseteq {DuplicateError})
       => intake'.validation.isValid]_vars

\* ------------------------------------------------------------------------
\* Reconciliation of the cache
\* ------------------------------------------------------------------------

RECURSIVE ReachableFrom(_)
\* the node and every node after it in the tree
ReachableFrom(n) ==
    IF n \notin NodeIds THEN {n}
    ELSE IF decisionTree[n].final THEN {n}
    ELSE {n} \cup ReachableFrom(decisionTree[n].win)
             \cup ReachableFrom(decisionTree[n].loss)

C38_AgeIsMeasuredFromCreation ==
    [][\A s \in DOMAIN cachedSessions :
          (/\ s \in sync'.visited \ sync.visited
           /\ sync.currentTime - firstCached[s] > cacheTimeoutMs)
          => s \in sync'.expiredSessions]_vars

\* ------------------------------------------------------------------------
\* Overnight registrations in memory and in the database
\* ------------------------------------------------------------------------

\* C39: after every operation on the overnight registrations, a trade of the
\* Map has a row in overnight_trades and the two carry the same status
C39_MemoryStatusEqualsDatabaseStatus ==
    \A tradeId \in DOMAIN activeTrades :
        /\ tradeId \in DOMAIN overnight_trades
        /\ activeTrades[tradeId].status = overnight_trades[tradeId].status

\* C40: manualClose returns true only for a registration that is active
C40_ManualCloseSucceedsOnlyWhenActive ==
    overnightLog.closed.returned => overnightLog.closed.status = "active"

====
